---- MODULE Spec2Model ----
(***************************************************************************)
(* Reconciliation matching engine of the receipts application (src/app.py).*)
(* One (job, subsidiary) scope is modelled: its Stripe ledger, its         *)
(* Cashbook ledger, the MatchedTransaction table, the                      *)
(* ReconciliationResults table and the JSON body of the last response.     *)
(*                                                                         *)
(* Conventions                                                             *)
(*   - a nullable column holds <<>> for None and <<v>> for the value v;    *)
(*   - amounts are integers in thousandths of a currency unit (50.00 is    *)
(*     50000), so that round(x, 2) and the 0.01 tolerances are not the     *)
(*     identity; the ledgers never hold two amounts exactly 0.01 apart or  *)
(*     a half-cent, where the result would depend on the float encoding;   *)
(*   - a date string is <<"dmy", n>> for a well-formed dd/mm/yyyy string   *)
(*     of day number n, <<"raw", k>> for a string no format parses, and    *)
(*     <<>> for None;                                                      *)
(*   - table rows are kept in insertion (primary key) order.               *)
(***************************************************************************)
EXTENDS Integers, Sequences, FiniteSets, TLC

VARIABLES subsidiary_id, stripe_transactions, cashbook_transactions,
          matched, results, resp, fp, journal_transactions, inflight, last_id

vars == <<subsidiary_id, stripe_transactions, cashbook_transactions,
          matched, results, resp, fp, journal_transactions, inflight, last_id>>

----------------------------------------------------------------------------
(* Generic helpers *)

None == <<>>

Some(v) == <<v>>

IsNone(o) == o = <<>>

Abs(x) == IF x < 0 THEN -x ELSE x

\* Python's "x or 0" on a nullable float
OrZero(o) == IF o = <<>> THEN 0 ELSE o[1]

\* Python's truthiness of a nullable float: None and 0.0 are falsy
Truthy(o) == o # <<>> /\ o[1] # 0

\* round(x, 2) on thousandths
Round2(a) == IF a >= 0 THEN ((a + 5) \div 10) * 10 ELSE -(((-a + 5) \div 10) * 10)

Range(s) == {s[i] : i \in 1..Len(s)}

RemoveAt(s, i) == SubSeq(s, 1, i - 1) \o SubSeq(s, i + 1, Len(s))

\* index of the first element of s satisfying P, 0 when there is none
FirstIdx(s, P(_)) ==
    IF \E i \in 1..Len(s) : P(s[i])
    THEN CHOOSE i \in 1..Len(s) : P(s[i]) /\ \A j \in 1..(i - 1) : ~P(s[j])
    ELSE 0

\* str(n) for the client ids of the model; str(None) is "None"
StrClient(o) ==
    IF o = <<>> THEN "None"
    ELSE CASE o[1] = 0   -> "0"
           [] o[1] = 123 -> "123"
           [] o[1] = 456 -> "456"
           [] o[1] = 789 -> "789"
           [] o[1] = 999 -> "999"

\* datetime.strptime(s, '%d/%m/%Y'): <<n>> on success, <<>> when it raises
ParseDMY(s) == IF s # <<>> /\ s[1] = "dmy" THEN <<s[2]>> ELSE <<>>

\* datetime.strptime(s, '%d/%m/%Y %H:%M') then '%d/%m/%Y' as fallback
ParseDMYHM(s) == IF s # <<>> /\ s[1] = "dmyhm" THEN <<s[2]>> ELSE ParseDMY(s)

\* (x or '').upper()
Upper(cur) ==
    CASE cur = "usd" -> "USD"
      [] cur = "aed" -> "AED"
      [] cur = "eur" -> "EUR"
      [] OTHER -> cur

subsidiary_mapping(sid) ==
    CASE sid = 1 -> "Ndevor Systems Ltd : Phorest Australia"
      [] sid = 2 -> "Ndevor Systems Ltd : Phorest Canada"
      [] sid = 3 -> "Ndevor Systems Ltd : Phorest US"
      [] sid = 4 -> "Ndevor Systems Ltd : Phorest Ireland"
      [] sid = 5 -> "Ndevor Systems Ltd : Phorest Ireland : Phorest UK"
      [] OTHER -> ""

----------------------------------------------------------------------------
(* Table rows *)

create_matched_transaction(stripe_tx, cashbook_tx, match_type, process_number) ==
    [ cashbook_id          |-> cashbook_tx.id,
      cb_payment_date      |-> cashbook_tx.payment_date,
      cb_client_id         |-> cashbook_tx.client_id,
      cb_invoice_number    |-> cashbook_tx.invoice_number,
      cb_billing_entity    |-> cashbook_tx.billing_entity,
      cb_currency          |-> cashbook_tx.currency,
      cb_amount            |-> cashbook_tx.amount,
      stripe_id            |-> stripe_tx.id,
      stripe_client_number |-> stripe_tx.client_number,
      stripe_type          |-> stripe_tx.type,
      stripe_created       |-> stripe_tx.created,
      stripe_amount        |-> stripe_tx.amount,
      stripe_currency      |-> stripe_tx.currency,
      match_type           |-> match_type,
      process_number       |-> process_number ]

ReconciliationResults(process_number, cutoff_date, us, uc, ooc, mm, usp2, ucp2) ==
    [ process_number              |-> process_number,
      cutoff_date                 |-> cutoff_date,
      unmatched_stripe_count      |-> us,
      unmatched_cashbook_count    |-> uc,
      out_of_cutoff_count         |-> ooc,
      multiple_matches_count      |-> mm,
      unmatched_stripe_p2_count   |-> usp2,
      unmatched_cashbook_p2_count |-> ucp2 ]

\* body of a response; the lists hold ledger ids, pairs hold <<stripe_id, cashbook_id>>
EmptyResp ==
    [ op |-> "none", status |-> 0, cached |-> FALSE, arg |-> 0,
      cutoff_date |-> <<>>,
      perfect_matches |-> <<>>, new_matches |-> <<>>,
      unmatched_stripe |-> <<>>, unmatched_cashbook |-> <<>>,
      out_of_cutoff_cashbook |-> <<>>,
      fees |-> <<>>, refunds |-> <<>>, cross_subsidiary |-> <<>>,
      near_matches |-> <<>>, deleted |-> <<0, 0>>,
      journals |-> [cross_subsidiary |-> <<>>, refunds |-> <<>>, poa |-> <<>>, regular |-> <<>>],
      name |-> <<>>, rows |-> <<>>, lines |-> <<>>, split_summary |-> <<>>,
      created_count |-> 0, updated_count |-> 0, balanced |-> <<>> ]

PairOf(m) == <<m.stripe_id, m.cashbook_id>>

Ids(s) == [i \in 1..Len(s) |-> s[i].id]

SeqMap(s, F(_)) == [i \in 1..Len(s) |-> F(s[i])]

----------------------------------------------------------------------------
(* Stage 1 (Process 1): cutoff date and perfect matching *)

FeeTypes == {"Stripe Fee", "Network Cost"}

\* a cutoff taken over the fee rows as well
actual_transactions_with_fees(st) ==
    SelectSeq(st, LAMBDA t : t.created # <<>>)

\* process1_match: the Stripe rows the cutoff is taken over
actual_transactions(st) ==
    SelectSeq(st, LAMBDA t : t.created # <<>> /\ t.type \notin FeeTypes)

\* process1_match: the days of the rows whose created parses as dd/mm/yyyy
parsed_dates(st) ==
    {ParseDMY(t.created)[1] : t \in {u \in Range(actual_transactions(st)) : ParseDMY(u.created) # <<>>}}

MaxOf(S) == CHOOSE x \in S : \A y \in S : y <= x

\* the dd/mm/yyyy string of the latest parsed date
cutoff_of(st) == <<"dmy", MaxOf(parsed_dates(st))>>

is_perfect_match(stripe_tx, cashbook_tx) ==
    /\ stripe_tx.client_number = StrClient(cashbook_tx.client_id)
    /\ stripe_tx.created = cashbook_tx.payment_date
    /\ ~(Abs(OrZero(stripe_tx.amount) - OrZero(cashbook_tx.amount)) > 10)

\* standard path: is this remaining Cashbook row dated after the cutoff
is_out_of_cutoff(cashbook_tx, cutoff_date) ==
    /\ ParseDMY(cutoff_date) # <<>>
    /\ cashbook_tx.payment_date # <<>>
    /\ ParseDMY(cashbook_tx.payment_date) # <<>>
    /\ ParseDMY(cashbook_tx.payment_date)[1] > ParseDMY(cutoff_date)[1]

\* a lookup that gives up after the first remaining Cashbook row
first_perfect_first_only(stripe_tx, available_cashbook) ==
    IF Len(available_cashbook) > 0 /\ is_perfect_match(stripe_tx, available_cashbook[1])
    THEN 1 ELSE 0

\* perform_matching: index of the first remaining Cashbook row that matches, 0 when none
first_perfect(stripe_tx, available_cashbook) ==
    FirstIdx(available_cashbook, LAMBDA c : is_perfect_match(stripe_tx, c))

\* the loop over stripe_transactions of perform_matching, from index i on
RECURSIVE perform_matching_loop(_, _, _)
perform_matching_loop(i, st, acc) ==
    IF i > Len(st) THEN acc
    ELSE LET stripe_tx == st[i] IN
         IF stripe_tx.type = "Payment Failure Refund"
         THEN perform_matching_loop(i + 1, st,
                  [acc EXCEPT !.unmatched_stripe = Append(@, stripe_tx.id)])
         ELSE LET k == first_perfect(stripe_tx, acc.available_cashbook) IN
              IF k = 0
              THEN perform_matching_loop(i + 1, st,
                       [acc EXCEPT !.unmatched_stripe = Append(@, stripe_tx.id)])
              ELSE perform_matching_loop(i + 1, st,
                       [acc EXCEPT
                          !.rows = Append(@, create_matched_transaction(
                                        stripe_tx, acc.available_cashbook[k], "perfect", 1)),
                          !.available_cashbook = RemoveAt(@, k)])

\* a forgotten filter: every row is reported as unmatched
filter_unmatched_nofilter(txs, ids) == txs

\* perform_matching, cached branch: [tx for tx in txs if tx.id not in ids]
filter_unmatched(txs, ids) == SelectSeq(txs, LAMBDA t : t.id \notin ids)

\* perform_matching: the rows to insert, the response lists and the summary row
perform_matching(st, cb, cutoff_date, existing) ==
    LET existing_matches == SelectSeq(existing, LAMBDA m : m.process_number = 1) IN
    IF Len(existing_matches) > 0
    THEN LET existing_stripe_ids == {m.stripe_id : m \in Range(existing_matches)}
             existing_cashbook_ids == {m.cashbook_id : m \in Range(existing_matches)}
             unmatched_stripe_tx == filter_unmatched(st, existing_stripe_ids)
             unmatched_cashbook_tx == filter_unmatched(cb, existing_cashbook_ids)
         IN [ cached |-> TRUE, rows |-> <<>>, summary |-> <<>>,
              perfect_matches |-> SeqMap(existing_matches, PairOf),
              unmatched_stripe |-> Ids(unmatched_stripe_tx),
              unmatched_cashbook |-> Ids(SelectSeq(unmatched_cashbook_tx,
                                        LAMBDA c : ~is_out_of_cutoff(c, cutoff_date))),
              out_of_cutoff_cashbook |-> Ids(SelectSeq(unmatched_cashbook_tx,
                                        LAMBDA c : is_out_of_cutoff(c, cutoff_date))) ]
    ELSE LET acc == perform_matching_loop(1, st,
                        [available_cashbook |-> cb, rows |-> <<>>, unmatched_stripe |-> <<>>])
             unmatched_cashbook == Ids(SelectSeq(acc.available_cashbook,
                                        LAMBDA c : ~is_out_of_cutoff(c, cutoff_date)))
             out_of_cutoff_cashbook == Ids(SelectSeq(acc.available_cashbook,
                                        LAMBDA c : is_out_of_cutoff(c, cutoff_date)))
         IN [ cached |-> FALSE, rows |-> acc.rows,
              summary |-> <<ReconciliationResults(1, cutoff_date, Len(acc.unmatched_stripe),
                                Len(unmatched_cashbook), Len(out_of_cutoff_cashbook), 0, 0, 0)>>,
              perfect_matches |-> SeqMap(acc.rows, PairOf),
              unmatched_stripe |-> acc.unmatched_stripe,
              unmatched_cashbook |-> unmatched_cashbook,
              out_of_cutoff_cashbook |-> out_of_cutoff_cashbook ]

\* EU path: str(x) if x else "0" on both ledgers' client columns
stripe_client_eu(stripe_tx) ==
    IF stripe_tx.client_number = "" THEN "0" ELSE stripe_tx.client_number

cashbook_client_eu(cashbook_tx) ==
    IF cashbook_tx.client_id = <<>> \/ cashbook_tx.client_id[1] = 0
    THEN "0" ELSE StrClient(cashbook_tx.client_id)

\* EU path: a Cashbook row enters cashbook_lookup only with a parsed date and an amount
in_cashbook_lookup(cashbook_tx) ==
    ParseDMY(cashbook_tx.payment_date) # <<>> /\ cashbook_tx.amount # <<>>

cashbook_key_eu(cashbook_tx) ==
    << cashbook_client_eu(cashbook_tx), ParseDMY(cashbook_tx.payment_date)[1],
       Round2(cashbook_tx.amount[1]), Upper(cashbook_tx.currency) >>

stripe_key_eu(stripe_tx) ==
    << stripe_client_eu(stripe_tx), ParseDMYHM(stripe_tx.created)[1],
       Round2(stripe_tx.amount[1]), Upper(stripe_tx.currency) >>

\* EU path: dated after the cutoff
is_out_of_cutoff_eu(cashbook_tx, cutoff_date) ==
    /\ ParseDMY(cashbook_tx.payment_date) # <<>>
    /\ ParseDMY(cutoff_date) # <<>>
    /\ ParseDMY(cashbook_tx.payment_date)[1] > ParseDMY(cutoff_date)[1]

\* the loop over stripe_transactions of perform_matching_eu, from index i on
RECURSIVE perform_matching_eu_loop(_, _, _, _)
perform_matching_eu_loop(i, st, cb, acc) ==
    IF i > Len(st) THEN acc
    ELSE LET stripe_tx == st[i] IN
         IF \/ stripe_tx.type = "Payment Failure Refund"
            \/ ParseDMYHM(stripe_tx.created) = <<>>
            \/ stripe_tx.amount = <<>>
         THEN perform_matching_eu_loop(i + 1, st, cb,
                  [acc EXCEPT !.unmatched_stripe = Append(@, stripe_tx.id)])
         ELSE LET k == FirstIdx(cb, LAMBDA c :
                           /\ in_cashbook_lookup(c)
                           /\ cashbook_key_eu(c) = stripe_key_eu(stripe_tx)
                           /\ c.id \notin acc.matched_cashbook_ids) IN
              IF k = 0
              THEN perform_matching_eu_loop(i + 1, st, cb,
                       [acc EXCEPT !.unmatched_stripe = Append(@, stripe_tx.id)])
              ELSE perform_matching_eu_loop(i + 1, st, cb,
                       [acc EXCEPT
                          !.rows = Append(@, create_matched_transaction(
                                        stripe_tx, cb[k], "perfect_match", 1)),
                          !.matched_cashbook_ids = @ \cup {cb[k].id}])

perform_matching_eu(st, cb, cutoff_date, existing) ==
    LET existing_matches == SelectSeq(existing, LAMBDA m : m.process_number = 1) IN
    IF Len(existing_matches) > 0
    THEN LET matched_stripe_ids == {m.stripe_id : m \in Range(existing_matches)}
             matched_cashbook_ids == {m.cashbook_id : m \in Range(existing_matches)}
             rest == SelectSeq(cb, LAMBDA t : t.id \notin matched_cashbook_ids)
         IN [ cached |-> TRUE, rows |-> <<>>, summary |-> <<>>,
              perfect_matches |-> SeqMap(existing_matches, PairOf),
              unmatched_stripe |-> Ids(SelectSeq(st, LAMBDA t : t.id \notin matched_stripe_ids)),
              unmatched_cashbook |-> Ids(SelectSeq(rest,
                                        LAMBDA c : ~is_out_of_cutoff_eu(c, cutoff_date))),
              out_of_cutoff_cashbook |-> Ids(SelectSeq(rest,
                                        LAMBDA c : is_out_of_cutoff_eu(c, cutoff_date))) ]
    ELSE LET acc == perform_matching_eu_loop(1, st, cb,
                        [matched_cashbook_ids |-> {}, rows |-> <<>>, unmatched_stripe |-> <<>>])
             rest == SelectSeq(cb, LAMBDA t : t.id \notin acc.matched_cashbook_ids)
             unmatched_cashbook == Ids(SelectSeq(rest,
                                        LAMBDA c : ~is_out_of_cutoff_eu(c, cutoff_date)))
             out_of_cutoff_cashbook == Ids(SelectSeq(rest,
                                        LAMBDA c : is_out_of_cutoff_eu(c, cutoff_date)))
         IN [ cached |-> FALSE, rows |-> acc.rows,
              summary |-> <<ReconciliationResults(1, cutoff_date, Len(acc.unmatched_stripe),
                                Len(unmatched_cashbook), Len(out_of_cutoff_cashbook), 0, 0, 0)>>,
              perfect_matches |-> SeqMap(acc.rows, PairOf),
              unmatched_stripe |-> acc.unmatched_stripe,
              unmatched_cashbook |-> unmatched_cashbook,
              out_of_cutoff_cashbook |-> out_of_cutoff_cashbook ]

----------------------------------------------------------------------------
(* Stage 2 (Process 2), EU path: three prioritised passes, +-5 days *)

\* the "+-{date_diff}d" suffix of the EU match types
DayStr(d) == <<"+-0d", "+-1d", "+-2d", "+-3d", "+-4d", "+-5d">>[d + 1]

\* a forgotten exclusion: no Stripe row counts as already matched
matched_stripe_ids_of_none(existing) == {}

\* rows of a table some MatchedTransaction of the scope references
matched_stripe_ids_of(existing) == {m.stripe_id : m \in Range(existing)}

matched_cashbook_ids_of(existing) == {m.cashbook_id : m \in Range(existing)}

\* a Cashbook row enters the two EU lookups only with a parsed date and a truthy amount
in_p2_lookup(cashbook_tx) ==
    ParseDMY(cashbook_tx.payment_date) # <<>> /\ Truthy(cashbook_tx.amount)

\* failure refunds let into stripe_tx_data
in_stripe_tx_data_with_refunds(stripe_tx) ==
    /\ ParseDMYHM(stripe_tx.created) # <<>>
    /\ stripe_tx.amount # <<>>

\* a Stripe row enters stripe_tx_data unless it is a failure refund or does not parse
in_stripe_tx_data(stripe_tx) ==
    /\ stripe_tx.type # "Payment Failure Refund"
    /\ ParseDMYHM(stripe_tx.created) # <<>>
    /\ stripe_tx.amount # <<>>

\* no currency check at all
currency_ok_eu_always(stripe_tx, cashbook_tx) == TRUE

\* the AED currency check of all three passes
currency_ok_eu(stripe_tx, cashbook_tx) ==
    ~(Upper(stripe_tx.currency) = "AED" /\ Upper(cashbook_tx.currency) # "AED")

\* a lookup that admits same-day candidates only
client_amount_candidate_same_day(client, stripe_tx, cashbook_tx, available) ==
    /\ in_p2_lookup(cashbook_tx)
    /\ cashbook_client_eu(cashbook_tx) = client
    /\ Round2(cashbook_tx.amount[1]) = Round2(stripe_tx.amount[1])
    /\ cashbook_tx.id \in available
    /\ ParseDMY(cashbook_tx.payment_date)[1] = ParseDMYHM(stripe_tx.created)[1]
    /\ currency_ok_eu(stripe_tx, cashbook_tx)

\* passes 1 and 2: candidate of the (client, amount) lookup within 5 days
client_amount_candidate(client, stripe_tx, cashbook_tx, available) ==
    /\ in_p2_lookup(cashbook_tx)
    /\ cashbook_client_eu(cashbook_tx) = client
    /\ Round2(cashbook_tx.amount[1]) = Round2(stripe_tx.amount[1])
    /\ cashbook_tx.id \in available
    /\ Abs(ParseDMY(cashbook_tx.payment_date)[1] - ParseDMYHM(stripe_tx.created)[1]) <= 5
    /\ currency_ok_eu(stripe_tx, cashbook_tx)

\* one of passes 1 and 2 over stripe_tx_data, from index i on
RECURSIVE client_amount_pass(_, _, _, _, _)
client_amount_pass(i, data, ucb, usedesc, acc) ==
    IF i > Len(data) THEN acc
    ELSE LET stripe_tx == data[i]
             client == IF usedesc THEN stripe_tx.description_client_id[1]
                       ELSE stripe_client_eu(stripe_tx) IN
         IF \/ stripe_tx.id \in acc.matched_stripe
            \/ (usedesc /\ stripe_tx.description_client_id = <<>>)
         THEN client_amount_pass(i + 1, data, ucb, usedesc, acc)
         ELSE LET k == FirstIdx(ucb, LAMBDA c :
                           client_amount_candidate(client, stripe_tx, c, acc.available_cashbook)) IN
              IF k = 0 THEN client_amount_pass(i + 1, data, ucb, usedesc, acc)
              ELSE LET date_diff == Abs(ParseDMY(ucb[k].payment_date)[1]
                                        - ParseDMYHM(stripe_tx.created)[1])
                       match_type == (IF usedesc THEN "desc_client_amount_"
                                      ELSE "client_amount_") \o DayStr(date_diff) IN
                   client_amount_pass(i + 1, data, ucb, usedesc,
                       [acc EXCEPT
                          !.rows = Append(@, create_matched_transaction(
                                                 stripe_tx, ucb[k], match_type, 2)),
                          !.available_cashbook = @ \ {ucb[k].id},
                          !.matched_stripe = @ \cup {stripe_tx.id}])

\* a scan that looks back before it looks ahead
date_offsets_minus_first ==
    <<  <<0, 0>>,
        <<1, 0>>, <<1, -1>>, <<1, 1>>,
        <<2, 0>>, <<2, -1>>, <<2, 1>>,
        <<3, 0>>, <<3, -1>>, <<3, 1>>,
        <<4, 0>>, <<4, -1>>, <<4, 1>>,
        <<5, 0>>, <<5, -1>>, <<5, 1>> >>

\* pass 3: the (days_offset, direction) pairs in the order the two loops visit them
date_offsets ==
    <<  <<0, 0>>,
        <<1, 0>>, <<1, 1>>, <<1, -1>>,
        <<2, 0>>, <<2, 1>>, <<2, -1>>,
        <<3, 0>>, <<3, 1>>, <<3, -1>>,
        <<4, 0>>, <<4, 1>>, <<4, -1>>,
        <<5, 0>>, <<5, 1>>, <<5, -1>> >>

\* pass 3: candidate of the (date, amount) lookup at check_date
date_amount_candidate(check_date, stripe_tx, cashbook_tx, available) ==
    /\ in_p2_lookup(cashbook_tx)
    /\ ParseDMY(cashbook_tx.payment_date)[1] = check_date
    /\ Round2(cashbook_tx.amount[1]) = Round2(stripe_tx.amount[1])
    /\ cashbook_tx.id \in available
    /\ currency_ok_eu(stripe_tx, cashbook_tx)

\* pass 3: the first offset (index into date_offsets) with a candidate, 0 when none
first_offset(stripe_tx, ucb, available) ==
    FirstIdx(date_offsets, LAMBDA od :
        \E j \in 1..Len(ucb) :
            date_amount_candidate(ParseDMYHM(stripe_tx.created)[1] + od[1] * od[2],
                                  stripe_tx, ucb[j], available))

RECURSIVE date_amount_pass(_, _, _, _)
date_amount_pass(i, data, ucb, acc) ==
    IF i > Len(data) THEN acc
    ELSE LET stripe_tx == data[i] IN
         IF stripe_tx.id \in acc.matched_stripe
         THEN date_amount_pass(i + 1, data, ucb, acc)
         ELSE LET o == first_offset(stripe_tx, ucb, acc.available_cashbook) IN
              IF o = 0 THEN date_amount_pass(i + 1, data, ucb, acc)
              ELSE LET od == date_offsets[o]
                       k == FirstIdx(ucb, LAMBDA c :
                                date_amount_candidate(
                                    ParseDMYHM(stripe_tx.created)[1] + od[1] * od[2],
                                    stripe_tx, c, acc.available_cashbook))
                       match_type == "date_amount_only_" \o DayStr(Abs(od[1])) IN
                   date_amount_pass(i + 1, data, ucb,
                       [acc EXCEPT
                          !.rows = Append(@, create_matched_transaction(
                                                 stripe_tx, ucb[k], match_type, 2)),
                          !.available_cashbook = @ \ {ucb[k].id},
                          !.matched_stripe = @ \cup {stripe_tx.id}])

\* the client_number pass run before the description_client_id pass
perform_process2_matching_eu_client_first(st, cb, existing) ==
    LET unmatched_stripe_tx == SelectSeq(st, LAMBDA t : t.id \notin matched_stripe_ids_of(existing))
        unmatched_cashbook_tx == SelectSeq(cb, LAMBDA t : t.id \notin matched_cashbook_ids_of(existing))
        stripe_tx_data == SelectSeq(unmatched_stripe_tx, in_stripe_tx_data)
        acc0 == [ available_cashbook |-> {t.id : t \in Range(unmatched_cashbook_tx)},
                  rows |-> <<>>, matched_stripe |-> {} ]
        acc1 == client_amount_pass(1, stripe_tx_data, unmatched_cashbook_tx, FALSE, acc0)
        acc2 == client_amount_pass(1, stripe_tx_data, unmatched_cashbook_tx, TRUE, acc1)
        acc3 == date_amount_pass(1, stripe_tx_data, unmatched_cashbook_tx, acc2)
        unmatched_stripe_p2 == Ids(SelectSeq(stripe_tx_data,
                                   LAMBDA t : t.id \notin acc3.matched_stripe))
        unmatched_cashbook_p2 == Ids(SelectSeq(unmatched_cashbook_tx,
                                   LAMBDA t : t.id \in acc3.available_cashbook))
    IN [ rows |-> acc3.rows,
         summary |-> <<ReconciliationResults(2, <<>>, 0, 0, 0, 0,
                           Len(unmatched_stripe_p2), Len(unmatched_cashbook_p2))>>,
         new_matches |-> SeqMap(acc3.rows, PairOf),
         unmatched_stripe |-> unmatched_stripe_p2,
         unmatched_cashbook |-> unmatched_cashbook_p2 ]

perform_process2_matching_eu(st, cb, existing) ==
    LET unmatched_stripe_tx == SelectSeq(st, LAMBDA t : t.id \notin matched_stripe_ids_of(existing))
        unmatched_cashbook_tx == SelectSeq(cb, LAMBDA t : t.id \notin matched_cashbook_ids_of(existing))
        stripe_tx_data == SelectSeq(unmatched_stripe_tx, in_stripe_tx_data)
        acc0 == [ available_cashbook |-> {t.id : t \in Range(unmatched_cashbook_tx)},
                  rows |-> <<>>, matched_stripe |-> {} ]
        acc1 == client_amount_pass(1, stripe_tx_data, unmatched_cashbook_tx, TRUE, acc0)
        acc2 == client_amount_pass(1, stripe_tx_data, unmatched_cashbook_tx, FALSE, acc1)
        acc3 == date_amount_pass(1, stripe_tx_data, unmatched_cashbook_tx, acc2)
        unmatched_stripe_p2 == Ids(SelectSeq(stripe_tx_data,
                                   LAMBDA t : t.id \notin acc3.matched_stripe))
        unmatched_cashbook_p2 == Ids(SelectSeq(unmatched_cashbook_tx,
                                   LAMBDA t : t.id \in acc3.available_cashbook))
    IN [ rows |-> acc3.rows,
         summary |-> <<ReconciliationResults(2, <<>>, 0, 0, 0, 0,
                           Len(unmatched_stripe_p2), Len(unmatched_cashbook_p2))>>,
         new_matches |-> SeqMap(acc3.rows, PairOf),
         unmatched_stripe |-> unmatched_stripe_p2,
         unmatched_cashbook |-> unmatched_cashbook_p2 ]

----------------------------------------------------------------------------
(* Stage 2 (Process 2), standard path: three strategies per Stripe row *)

\* str(x or '') on the two client columns
StrOrEmpty(o) == IF o = <<>> \/ o[1] = 0 THEN "" ELSE StrClient(o)

is_client_amount_match(stripe_tx, cashbook_tx) ==
    /\ stripe_tx.client_number = StrOrEmpty(cashbook_tx.client_id)
    /\ ~(Abs(OrZero(stripe_tx.amount) - OrZero(cashbook_tx.amount)) > 10)

is_date_amount_match(stripe_tx, cashbook_tx, date_tolerance_days) ==
    /\ ParseDMY(stripe_tx.created) # <<>>
    /\ ParseDMY(cashbook_tx.payment_date) # <<>>
    /\ ~(Abs(ParseDMY(stripe_tx.created)[1] - ParseDMY(cashbook_tx.payment_date)[1])
            > date_tolerance_days)
    /\ ~(Abs(OrZero(stripe_tx.amount) - OrZero(cashbook_tx.amount)) > 10)

\* strategy 3: a row of another subsidiary's books with matching date and amount
is_cross_subsidiary_match(stripe_tx, cashbook_tx, current_subsidiary_name) ==
    /\ cashbook_tx.billing_entity # ""
    /\ cashbook_tx.billing_entity # current_subsidiary_name
    /\ is_date_amount_match(stripe_tx, cashbook_tx, 2)

RECURSIVE perform_process2_loop(_, _, _, _)
perform_process2_loop(i, ust, name, acc) ==
    IF i > Len(ust) THEN acc
    ELSE LET stripe_tx == ust[i]
             k1 == FirstIdx(acc.available_cashbook,
                            LAMBDA c : is_date_amount_match(stripe_tx, c, 2))
             k2 == FirstIdx(acc.available_cashbook,
                            LAMBDA c : is_client_amount_match(stripe_tx, c))
             k3 == FirstIdx(acc.available_cashbook,
                            LAMBDA c : is_cross_subsidiary_match(stripe_tx, c, name))
             matched_index == IF k1 # 0 THEN k1 ELSE IF k2 # 0 THEN k2 ELSE k3
             match_strategy == IF k1 # 0 THEN "date_amount"
                               ELSE IF k2 # 0 THEN "client_amount" ELSE "cross_subsidiary"
         IN
         IF stripe_tx.type = "Payment Failure Refund"
         THEN perform_process2_loop(i + 1, ust, name, acc)
         ELSE IF matched_index = 0
         THEN perform_process2_loop(i + 1, ust, name,
                  [acc EXCEPT !.unmatched_stripe = Append(@, stripe_tx.id)])
         ELSE perform_process2_loop(i + 1, ust, name,
                  [acc EXCEPT
                     !.rows = Append(@, create_matched_transaction(
                                  stripe_tx, acc.available_cashbook[matched_index],
                                  match_strategy, 2)),
                     !.available_cashbook = RemoveAt(@, matched_index)])

perform_process2_matching(st, cb, existing, sid) ==
    LET unmatched_stripe_tx == SelectSeq(st, LAMBDA t : t.id \notin matched_stripe_ids_of(existing))
        unmatched_cashbook_tx == SelectSeq(cb, LAMBDA t : t.id \notin matched_cashbook_ids_of(existing))
        acc == perform_process2_loop(1, unmatched_stripe_tx, subsidiary_mapping(sid),
                   [available_cashbook |-> unmatched_cashbook_tx, rows |-> <<>>,
                    unmatched_stripe |-> <<>>])
    IN [ rows |-> acc.rows,
         summary |-> <<ReconciliationResults(2, <<>>, 0, 0, 0, 0,
                           Len(acc.unmatched_stripe), Len(acc.available_cashbook))>>,
         new_matches |-> SeqMap(acc.rows, PairOf),
         unmatched_stripe |-> acc.unmatched_stripe,
         unmatched_cashbook |-> Ids(acc.available_cashbook) ]

----------------------------------------------------------------------------
(* Stage 3 (Process 3): classification of the unmatched Stripe rows *)

\* (type or '').lower()
Lower(t) == IF t = "Refund" THEN "refund" ELSE t

is_refund(stripe_tx) ==
    (Truthy(stripe_tx.amount) /\ stripe_tx.amount[1] < 0) \/ Lower(stripe_tx.type) = "refund"

is_fee(stripe_tx) == stripe_tx.client_number = "0"

is_cross_subsidiary(stripe_tx, cb_tx, current_subsidiary_name) ==
    /\ cb_tx.billing_entity # ""
    /\ cb_tx.billing_entity # current_subsidiary_name
    /\ cb_tx.payment_date = stripe_tx.created
    /\ Abs(OrZero(cb_tx.amount) - OrZero(stripe_tx.amount)) < 10

is_near_match(stripe_tx, cashbook_tx, date_tolerance_days) ==
    /\ stripe_tx.client_number = StrOrEmpty(cashbook_tx.client_id)
    /\ ~(Abs(OrZero(stripe_tx.amount) - OrZero(cashbook_tx.amount)) >= 10)
    /\ ParseDMY(stripe_tx.created) # <<>>
    /\ ParseDMY(cashbook_tx.payment_date) # <<>>
    /\ Abs(ParseDMY(stripe_tx.created)[1] - ParseDMY(cashbook_tx.payment_date)[1])
          <= date_tolerance_days

\* the fee rule tried before the refund rule
classify_fee_first(stripe_tx, cb, name) ==
    IF is_fee(stripe_tx) THEN "fees"
    ELSE IF is_refund(stripe_tx) THEN "refunds"
    ELSE IF \E c \in Range(cb) : is_cross_subsidiary(stripe_tx, c, name) THEN "cross_subsidiary"
    ELSE IF \E c \in Range(cb) : is_near_match(stripe_tx, c, 2) THEN "near_matches"
    ELSE "unmatched_stripe"

\* the category the if / elif chain of perform_process3_analysis puts a row in
classify(stripe_tx, cb, name) ==
    IF is_refund(stripe_tx) THEN "refunds"
    ELSE IF is_fee(stripe_tx) THEN "fees"
    ELSE IF \E c \in Range(cb) : is_cross_subsidiary(stripe_tx, c, name) THEN "cross_subsidiary"
    ELSE IF \E c \in Range(cb) : is_near_match(stripe_tx, c, 2) THEN "near_matches"
    ELSE "unmatched_stripe"

perform_process3_analysis(st, cb, existing, sid) ==
    LET unmatched_stripe_tx == SelectSeq(st, LAMBDA t : t.id \notin matched_stripe_ids_of(existing))
        unmatched_cashbook_tx == SelectSeq(cb, LAMBDA t : t.id \notin matched_cashbook_ids_of(existing))
        name == subsidiary_mapping(sid)
        of(cat) == Ids(SelectSeq(unmatched_stripe_tx, LAMBDA t : classify(t, cb, name) = cat))
    IN [ fees |-> of("fees"), refunds |-> of("refunds"),
         cross_subsidiary |-> of("cross_subsidiary"), near_matches |-> of("near_matches"),
         unmatched_stripe |-> of("unmatched_stripe"),
         unmatched_cashbook |-> Ids(unmatched_cashbook_tx),
         summary |-> <<ReconciliationResults(3, <<>>, Len(of("unmatched_stripe")),
                           Len(unmatched_cashbook_tx), Len(of("near_matches")),
                           Len(of("fees")), Len(of("refunds")), Len(of("cross_subsidiary")))>> ]

----------------------------------------------------------------------------
(* Installments and journal download *)

\* 'POA' in str(invoice_number).upper()
HasPOA(inv) == inv \in {"POA-1", "poa-2"}

\* process_installments: index of the match a CSV row splits; 0 when no match has the
\* row's client and total amount, -1 when float(None) raises on the way
RECURSIVE find_installment_match(_, _, _)
find_installment_match(j, matches, row) ==
    IF j > Len(matches) THEN 0
    ELSE IF matches[j].cb_client_id # <<row.client_id>>
         THEN find_installment_match(j + 1, matches, row)
    ELSE IF matches[j].cb_amount = <<>> THEN -1
    ELSE IF Abs(matches[j].cb_amount[1] - row.total_amount) < 10 /\ row.installment_amount # 0
         THEN j
    ELSE find_installment_match(j + 1, matches, row)

\* the MatchedTransaction process_installments adds for a match
installment_match(match, installment_amount) ==
    [match EXCEPT !.match_type = "Salon Summit Installment",
                  !.stripe_amount = <<installment_amount>>,
                  !.cb_amount = <<installment_amount>>,
                  !.cb_invoice_number = @ \o "-INSTALLMENT"]

\* the rows process_installments adds for the CSV rows from index i on; ok is FALSE when it raises
RECURSIVE installment_rows(_, _, _, _)
installment_rows(i, csv, matches, acc) ==
    IF i > Len(csv) THEN [ok |-> TRUE, rows |-> acc]
    ELSE LET j == find_installment_match(1, matches, csv[i]) IN
         IF j = -1 THEN [ok |-> FALSE, rows |-> <<>>]
         ELSE IF j = 0 THEN installment_rows(i + 1, csv, matches, acc)
         ELSE installment_rows(i + 1, csv, matches,
                  Append(acc, installment_match(matches[j], csv[i].installment_amount)))

\* download_split_journals: the journal a matched row goes to
split_category(match, current_billing_entity) ==
    IF match.cb_billing_entity # "" /\ match.cb_billing_entity # current_billing_entity
    THEN "cross_subsidiary"
    ELSE IF Truthy(match.cb_amount) /\ match.cb_amount[1] < 0 THEN "refunds"
    ELSE IF match.cb_invoice_number # "" /\ HasPOA(match.cb_invoice_number) THEN "poa"
    ELSE "regular"

\* indices of the matched rows of one journal
journal_rows(matches, cat, current_billing_entity) ==
    SelectSeq([i \in 1..Len(matches) |-> i],
              LAMBDA i : split_category(matches[i], current_billing_entity) = cat)

----------------------------------------------------------------------------
(* Bounds and the ledgers a scope starts with *)

MaxLedger == 2

MaxMatched == 3

MaxResults == 3

MaxCsvRows == 1

US == 3

EU == 4

StripeRow(client_number, description_client_id, type, created, amount, currency) ==
    [ client_number |-> client_number, description_client_id |-> description_client_id,
      type |-> type, created |-> created, amount |-> amount, currency |-> currency ]

CashbookRow(client_id, payment_date, amount, currency, billing_entity, invoice_number) ==
    [ client_id |-> client_id, payment_date |-> payment_date, amount |-> amount,
      currency |-> currency, billing_entity |-> billing_entity,
      invoice_number |-> invoice_number ]

\* rows an uploaded Stripe CSV can hold
StripeUniverse ==
    { StripeRow("123", <<>>, "Charge", <<"dmy", 10>>, <<50000>>, "usd"),
      StripeRow("456", <<"123">>, "Charge", <<"dmy", 10>>, <<50000>>, "usd") }

\* rows an uploaded Cashbook sheet can hold
CashbookUniverse ==
    { CashbookRow(<<123>>, <<"dmy", 10>>, <<50000>>, "USD", subsidiary_mapping(US), "INV-1"),
      CashbookRow(<<123>>, <<"dmy", 12>>, <<50000>>, "USD", subsidiary_mapping(US), "POA-1") }

\* the upload numbers the rows of a file 1, 2, ... in file order
WithIds(rows) == [i \in 1..Len(rows) |-> [id |-> i] @@ rows[i]]

Ledgers(U) == UNION {{WithIds(f) : f \in [1..n -> U]} : n \in 1..MaxLedger}

\* rows of an installment CSV
CsvRows ==
    [ client_id : {123}, installment_amount : {10000}, total_amount : {50000} ]

CsvFiles == UNION {[1..n -> CsvRows] : n \in 1..MaxCsvRows}

\* the ledgers that hold every row of U once, in any file order
Sheets(U) ==
    {WithIds(f) : f \in {g \in [1..Cardinality(U) -> U] : Range(g) = U}}

\* the further-processing tables of a scope: FPJournalRow, FPWorkingRow,
\* FPProcessedJournal, FPSummitInstallment, FPMatchResult, and the columns
\* summit_data and original_amounts of its FPDataset row
FPDataset(journal_rows_, working_rows_) ==
    [ journal_rows        |-> journal_rows_,
      working_rows        |-> working_rows_,
      processed_journals  |-> <<>>,
      summit_installments |-> <<>>,
      match_results       |-> <<>>,
      summit_data         |-> None,
      original_amounts    |-> None ]

Init ==
    /\ subsidiary_id \in {US, EU}
    /\ stripe_transactions \in Ledgers(StripeUniverse)
    /\ cashbook_transactions \in Sheets(CashbookUniverse)
    /\ matched = <<>>
    /\ results = <<>>
    /\ resp = EmptyResp
    /\ fp = FPDataset(<<>>, <<>>)
    /\ journal_transactions = <<>>
    /\ inflight = <<>>
    /\ last_id = [stripe |-> Len(stripe_transactions), cashbook |-> Len(cashbook_transactions)]

----------------------------------------------------------------------------
(* Handlers *)

\* the ledgers and the further-processing tables, which no reconciliation handler writes
Scope_unchanged ==
    UNCHANGED <<subsidiary_id, stripe_transactions, cashbook_transactions, fp, inflight, last_id>>

Ledgers_unchanged == Scope_unchanged /\ UNCHANGED journal_transactions

\* a JournalTransaction names its MatchedTransaction by the row's position in
\* the table, 0 once that row is deleted: ids are never given out twice. The
\* references after the rows that fail keep(_) are deleted
references_after_delete(journal, matches, keep(_)) ==
    [k \in 1..Len(journal) |->
        LET i == journal[k].matched_transaction_id IN
        [journal[k] EXCEPT !.matched_transaction_id =
            IF i = 0 \/ ~keep(matches[i]) THEN 0
            ELSE Cardinality({j \in 1..i : keep(matches[j])})]]

Error(op, status) == [EmptyResp EXCEPT !.op = op, !.status = status]

\* process1_match; summary_commit_fails is a database error raised by the commit
\* that follows the insertion of the summary row
Process1Match(summary_commit_fails) ==
    /\ Ledgers_unchanged
    /\ IF stripe_transactions = <<>> \/ cashbook_transactions = <<>>
          \/ actual_transactions(stripe_transactions) = <<>>
          \/ parsed_dates(stripe_transactions) = {}
       THEN /\ ~summary_commit_fails
            /\ resp' = Error("process1", 400)
            /\ UNCHANGED <<matched, results>>
       ELSE LET cutoff_date == cutoff_of(stripe_transactions)
                r == IF subsidiary_id = 4
                     THEN perform_matching_eu(stripe_transactions, cashbook_transactions,
                                              cutoff_date, matched)
                     ELSE perform_matching(stripe_transactions, cashbook_transactions,
                                           cutoff_date, matched)
            IN /\ Len(matched) + Len(r.rows) <= MaxMatched
               /\ Len(results) + Len(r.summary) <= MaxResults
               /\ summary_commit_fails => ~r.cached
               /\ matched' = matched \o r.rows
               /\ results' = IF summary_commit_fails THEN results ELSE results \o r.summary
               /\ resp' = IF summary_commit_fails THEN Error("process1", 500)
                          ELSE [EmptyResp EXCEPT
                                  !.op = "process1", !.status = 200, !.cached = r.cached,
                                  !.cutoff_date = cutoff_date,
                                  !.perfect_matches = r.perfect_matches,
                                  !.unmatched_stripe = r.unmatched_stripe,
                                  !.unmatched_cashbook = r.unmatched_cashbook,
                                  !.out_of_cutoff_cashbook = r.out_of_cutoff_cashbook]

\* process2_match
Process2Match(summary_commit_fails) ==
    /\ Ledgers_unchanged
    /\ IF stripe_transactions = <<>> \/ cashbook_transactions = <<>>
       THEN /\ ~summary_commit_fails
            /\ resp' = Error("process2", 400)
            /\ UNCHANGED <<matched, results>>
       ELSE LET r == IF subsidiary_id = 4
                     THEN perform_process2_matching_eu(stripe_transactions,
                              cashbook_transactions, matched)
                     ELSE perform_process2_matching(stripe_transactions,
                              cashbook_transactions, matched, subsidiary_id)
            IN /\ Len(matched) + Len(r.rows) <= MaxMatched
               /\ Len(results) + Len(r.summary) <= MaxResults
               /\ matched' = matched \o r.rows
               /\ results' = IF summary_commit_fails THEN results ELSE results \o r.summary
               /\ resp' = IF summary_commit_fails THEN Error("process2", 500)
                          ELSE [EmptyResp EXCEPT
                                  !.op = "process2", !.status = 200,
                                  !.perfect_matches = SeqMap(matched', PairOf),
                                  !.new_matches = r.new_matches,
                                  !.unmatched_stripe = r.unmatched_stripe,
                                  !.unmatched_cashbook = r.unmatched_cashbook]

\* process3_match
Process3Match(summary_commit_fails) ==
    /\ Ledgers_unchanged
    /\ UNCHANGED matched
    /\ IF stripe_transactions = <<>>
       THEN /\ ~summary_commit_fails
            /\ resp' = Error("process3", 400)
            /\ UNCHANGED results
       ELSE LET r == perform_process3_analysis(stripe_transactions, cashbook_transactions,
                                               matched, subsidiary_id)
            IN /\ Len(results) + 1 <= MaxResults
               /\ results' = IF summary_commit_fails THEN results ELSE results \o r.summary
               /\ resp' = IF summary_commit_fails THEN Error("process3", 500)
                          ELSE [EmptyResp EXCEPT
                                  !.op = "process3", !.status = 200,
                                  !.fees = r.fees, !.refunds = r.refunds,
                                  !.cross_subsidiary = r.cross_subsidiary,
                                  !.near_matches = r.near_matches,
                                  !.unmatched_stripe = r.unmatched_stripe,
                                  !.unmatched_cashbook = r.unmatched_cashbook]

\* a deletion of the named process only, not of the later ones
DeleteProcessMatches_only(process_number) ==
    /\ Scope_unchanged
    /\ matched' = SelectSeq(matched, LAMBDA m : ~(m.process_number = process_number))
    /\ journal_transactions' = references_after_delete(journal_transactions, matched,
                                   LAMBDA m : ~(m.process_number = process_number))
    /\ results' = SelectSeq(results, LAMBDA r : ~(r.process_number = process_number))
    /\ resp' = [EmptyResp EXCEPT !.op = "delete_process", !.status = 200,
                                 !.arg = process_number,
                                 !.deleted = <<Len(matched) - Len(matched'),
                                               Len(results) - Len(results')>>]

\* delete_process_matches
DeleteProcessMatches(process_number) ==
    /\ Scope_unchanged
    /\ matched' = SelectSeq(matched, LAMBDA m : ~(m.process_number >= process_number))
    /\ journal_transactions' = references_after_delete(journal_transactions, matched,
                                   LAMBDA m : ~(m.process_number >= process_number))
    /\ results' = SelectSeq(results, LAMBDA r : ~(r.process_number >= process_number))
    /\ resp' = [EmptyResp EXCEPT !.op = "delete_process", !.status = 200,
                                 !.arg = process_number,
                                 !.deleted = <<Len(matched) - Len(matched'),
                                               Len(results) - Len(results')>>]

\* delete_all_matches
DeleteAllMatches ==
    /\ Scope_unchanged
    /\ matched' = <<>>
    /\ journal_transactions' = references_after_delete(journal_transactions, matched,
                                   LAMBDA m : FALSE)
    /\ results' = <<>>
    /\ resp' = [EmptyResp EXCEPT !.op = "delete_all", !.status = 200,
                                 !.deleted = <<Len(matched), Len(results)>>]

\* resolve_multiple_match
ResolveMultipleMatch(stripe_id, selected_cashbook_id) ==
    /\ Ledgers_unchanged
    /\ UNCHANGED results
    /\ IF stripe_id \notin 1..Len(stripe_transactions)
          \/ selected_cashbook_id \notin 1..Len(cashbook_transactions)
       THEN /\ resp' = Error("resolve", 404)
            /\ UNCHANGED matched
       ELSE /\ Len(matched) + 1 <= MaxMatched
            /\ matched' = Append(matched, create_matched_transaction(
                              stripe_transactions[stripe_id],
                              cashbook_transactions[selected_cashbook_id],
                              "date_amount_resolved", 2))
            /\ resp' = [EmptyResp EXCEPT !.op = "resolve", !.status = 200]

\* process_installments
ProcessInstallments(csv) ==
    /\ Ledgers_unchanged
    /\ UNCHANGED results
    /\ IF matched = <<>>
       THEN /\ resp' = Error("installments", 404)
            /\ UNCHANGED matched
       ELSE LET r == installment_rows(1, csv, matched, <<>>) IN
            IF ~r.ok
            THEN /\ resp' = Error("installments", 500)
                 /\ UNCHANGED matched
            ELSE /\ Len(matched) + Len(r.rows) <= MaxMatched
                 /\ matched' = matched \o r.rows
                 /\ resp' = [EmptyResp EXCEPT !.op = "installments", !.status = 200,
                                              !.arg = Len(r.rows)]

\* download_split_journals
DownloadSplitJournals ==
    /\ Ledgers_unchanged
    /\ UNCHANGED <<matched, results>>
    /\ IF matched = <<>>
       THEN resp' = Error("split", 404)
       ELSE LET e == subsidiary_mapping(subsidiary_id) IN
            resp' = [EmptyResp EXCEPT
                       !.op = "split", !.status = 200,
                       !.journals = [ cross_subsidiary |-> journal_rows(matched, "cross_subsidiary", e),
                                      refunds |-> journal_rows(matched, "refunds", e),
                                      poa |-> journal_rows(matched, "poa", e),
                                      regular |-> journal_rows(matched, "regular", e) ]]

Next ==
    \/ \E f \in BOOLEAN : Process1Match(f)
    \/ \E f \in BOOLEAN : Process2Match(f)
    \/ \E f \in BOOLEAN : Process3Match(f)
    \/ \E n \in 1..3 : DeleteProcessMatches(n)

Spec == Init /\ [][Next]_vars

----------------------------------------------------------------------------
(* Stage 1 on its own, over ledgers that vary in kind, currency, rounding and date *)

StripeUniverseStage1 ==
    { StripeRow("123", <<>>, "Charge", <<"dmy", 10>>, <<50000>>, "usd"),
      StripeRow("123", <<>>, "Payment Failure Refund", <<"dmy", 10>>, <<50000>>, "usd"),
      StripeRow("123", <<>>, "Charge", <<"dmy", 10>>, <<50004>>, "aed"),
      StripeRow("123", <<>>, "Charge", <<"raw", 1>>, <<50000>>, "usd") }

CashbookUniverseStage1 ==
    { CashbookRow(<<123>>, <<"dmy", 10>>, <<50000>>, "USD", subsidiary_mapping(US), "INV-1"),
      CashbookRow(<<123>>, <<"dmy", 10>>, <<50000>>, "EUR", subsidiary_mapping(EU), "INV-1"),
      CashbookRow(<<123>>, <<"dmy", 10>>, <<50004>>, "AED", subsidiary_mapping(EU), "INV-1"),
      CashbookRow(<<123>>, <<"dmy", 12>>, <<50000>>, "USD", subsidiary_mapping(US), "INV-1") }

InitStage1 ==
    /\ subsidiary_id \in {US, EU}
    /\ stripe_transactions \in Ledgers(StripeUniverseStage1)
    /\ cashbook_transactions \in Ledgers(CashbookUniverseStage1)
    /\ matched = <<>>
    /\ results = <<>>
    /\ resp = EmptyResp
    /\ fp = FPDataset(<<>>, <<>>)
    /\ journal_transactions = <<>>
    /\ inflight = <<>>
    /\ last_id = [stripe |-> Len(stripe_transactions), cashbook |-> Len(cashbook_transactions)]

NextStage1 ==
    \/ \E f \in BOOLEAN : Process1Match(f)
    \/ \E n \in 1..3 : DeleteProcessMatches(n)

SpecStage1 == InitStage1 /\ [][NextStage1]_vars

----------------------------------------------------------------------------
(* Every endpoint that writes or reads MatchedTransaction, on one small scope *)

InitOps ==
    /\ subsidiary_id \in {US, EU}
    /\ stripe_transactions \in Ledgers(StripeUniverse)
    /\ Len(stripe_transactions) = 1
    /\ cashbook_transactions \in Ledgers(CashbookUniverse)
    /\ Len(cashbook_transactions) = 1
    /\ matched = <<>>
    /\ results = <<>>
    /\ resp = EmptyResp
    /\ fp = FPDataset(<<>>, <<>>)
    /\ journal_transactions = <<>>
    /\ inflight = <<>>
    /\ last_id = [stripe |-> Len(stripe_transactions), cashbook |-> Len(cashbook_transactions)]

NextOps ==
    \/ Process1Match(FALSE)
    \/ Process2Match(FALSE)
    \/ DeleteAllMatches
    \/ \E stripe_id \in 1..MaxLedger, selected_cashbook_id \in 1..MaxLedger :
           ResolveMultipleMatch(stripe_id, selected_cashbook_id)
    \/ \E csv \in CsvFiles : ProcessInstallments(csv)
    \/ DownloadSplitJournals
    \/ Process3Match(FALSE)

SpecOps == InitOps /\ [][NextOps]_vars

----------------------------------------------------------------------------
(* Properties *)

RowsOfProcess(n) == SelectSeq(matched, LAMBDA m : m.process_number = n)

SummariesOfProcess(n) == SelectSeq(results, LAMBDA r : r.process_number = n)

\* C1: no Stripe id and no Cashbook id is referenced by more than one
\* MatchedTransaction of the scope.
C1_Disjointness ==
    \A i, j \in 1..Len(matched) :
        i # j => /\ matched[i].stripe_id # matched[j].stripe_id
                 /\ matched[i].cashbook_id # matched[j].cashbook_id

StageOp(n) == <<"process1", "process2", "process3">>[n]

\* C2: invoking a stage whose summary row exists (the stage has run on the scope
\* and was not deleted since), on unchanged ledgers, leaves the
\* MatchedTransaction table exactly as it was; so does invoking a stage right
\* after an invocation of the same stage.
C2_Idempotence ==
    [][ \A n \in 1..3 :
          (/\ resp'.op = StageOp(n)
           /\ Len(SummariesOfProcess(n)) > 0 \/ resp.op = StageOp(n)
           /\ stripe_transactions' = stripe_transactions
           /\ cashbook_transactions' = cashbook_transactions)
          => matched' = matched ]_vars

\* Stage 2 has been invoked twice in a row on a scope where it produced pairs
C2_Witness ==
    /\ resp.op = "process2" /\ resp.status = 200
    /\ Len(SummariesOfProcess(2)) = 2 /\ Len(results) = 2
    /\ Len(matched) > 0
    /\ resp.new_matches = <<>>

\* C3: there is at most one summary row per stage number.
C3_OneSummaryPerStage ==
    \A n \in 1..3 : Len(SummariesOfProcess(n)) <= 1

\* C4: a stage invocation persists its pairs and its summary row together or
\* not at all, so no pair of a stage is persisted without that stage's summary row.
C4_AllOrNothing ==
    \A i \in 1..Len(matched) : Len(SummariesOfProcess(matched[i].process_number)) > 0

\* C5: deleting by stage >= N removes exactly the pairs and summary rows whose
\* stage number is >= N and keeps the others unchanged; after deleting stage 2
\* no stage-3 result remains.
C5_DeleteFrame ==
    [][ resp'.op = "delete_process"
        => /\ matched' = SelectSeq(matched, LAMBDA m : m.process_number < resp'.arg)
           /\ results' = SelectSeq(results, LAMBDA r : r.process_number < resp'.arg)
           /\ (resp'.arg <= 2 => SelectSeq(results', LAMBDA r : r.process_number = 3) = <<>>) ]_vars

\* stage >= 2 has just been deleted on a scope that held stage-1, stage-2 and
\* stage-3 results; the stage-1 results are still there
C5_Witness ==
    /\ resp.op = "delete_process" /\ resp.arg = 2
    /\ resp.deleted[1] > 0 /\ resp.deleted[2] >= 2
    /\ Len(RowsOfProcess(1)) > 0 /\ Len(SummariesOfProcess(1)) > 0
    /\ Len(RowsOfProcess(1)) = Len(matched)

\* C6: Stage 2 never executes before Stage 1 has completed, Stage 3 never
\* before Stage 2, the journal splitter never before Stage 3.
C6_Staged ==
    /\ (resp.op = "process2" /\ resp.status = 200) => Len(SummariesOfProcess(1)) > 0
    /\ (resp.op = "process3" /\ resp.status = 200) => Len(SummariesOfProcess(2)) > 0
    /\ (resp.op = "split" /\ resp.status = 200) => Len(SummariesOfProcess(3)) > 0

ListedIds(r) == Range(r.unmatched_stripe)

ListedCashbookIds(r) == Range(r.unmatched_cashbook) \cup Range(r.out_of_cutoff_cashbook)

\* C7 as stated: a re-invoked Stage 1 returns the stage-1 pairs and lists as
\* unmatched or out of cutoff no entry consumed by any pair of the scope.
C7_CachedOverRemaining ==
    (resp.op = "process1" /\ resp.cached)
    => /\ resp.perfect_matches = SeqMap(RowsOfProcess(1), PairOf)
       /\ ListedIds(resp) \cap matched_stripe_ids_of(matched) = {}
       /\ ListedCashbookIds(resp) \cap matched_cashbook_ids_of(matched) = {}

\* C7 amended: a re-invoked Stage 1 inserts nothing, returns the stage-1 rows
\* and lists exactly the entries no stage-1 row consumes, each Cashbook entry
\* in one of the two lists.
C7_CachedOverStage1Remaining ==
    [][ (resp'.op = "process1" /\ resp'.cached)
        => /\ matched' = matched /\ results' = results
           /\ resp'.perfect_matches = SeqMap(RowsOfProcess(1), PairOf)
           /\ ListedIds(resp') =
                 {t.id : t \in Range(stripe_transactions)}
                     \ matched_stripe_ids_of(RowsOfProcess(1))
           /\ ListedCashbookIds(resp') =
                 {t.id : t \in Range(cashbook_transactions)}
                     \ matched_cashbook_ids_of(RowsOfProcess(1))
           /\ Range(resp'.unmatched_cashbook) \cap Range(resp'.out_of_cutoff_cashbook) = {}
           /\ Len(resp'.unmatched_stripe) = Cardinality(ListedIds(resp'))
           /\ Len(resp'.unmatched_cashbook) + Len(resp'.out_of_cutoff_cashbook)
                 = Cardinality(ListedCashbookIds(resp')) ]_vars

\* Stage 1 answered from the existing rows while a stage-2 pair exists
C7_Witness ==
    /\ resp.op = "process1" /\ resp.cached
    /\ Len(RowsOfProcess(2)) > 0
    /\ resp.unmatched_stripe # <<>>
    /\ ListedCashbookIds(resp) # {}

\* C8: no stage-2 pair consumes a Cashbook entry dated after the Stage-1 cutoff.
C8_BeyondCutoffExcluded ==
    \A i \in 1..Len(results), j \in 1..Len(matched) :
        (results[i].process_number = 1 /\ matched[j].process_number = 2
            /\ ParseDMY(matched[j].cb_payment_date) # <<>>)
        => ParseDMY(matched[j].cb_payment_date)[1] <= ParseDMY(results[i].cutoff_date)[1]

\* the Stage-1 key of the specification, for rows that have a date and an amount
HasKey(date, amount) == ParseDMY(date) # <<>> /\ amount # <<>>

StripeKey(t) == <<t.client_number, ParseDMY(t.created)[1], Round2(t.amount[1]), Upper(t.currency)>>

CashbookKey(t) ==
    <<StrClient(t.client_id), ParseDMY(t.payment_date)[1], Round2(t.amount[1]), Upper(t.currency)>>

\* C9: every pair Stage 1 produces joins entries that agree on client, date,
\* amount rounded to 2 decimals and currency.
C9_Stage1KeyAgreement ==
    \A i \in 1..Len(matched) :
        matched[i].process_number = 1
        => /\ matched[i].stripe_client_number = StrClient(matched[i].cb_client_id)
           /\ matched[i].stripe_created = matched[i].cb_payment_date
           /\ Round2(OrZero(matched[i].stripe_amount)) = Round2(OrZero(matched[i].cb_amount))
           /\ Upper(matched[i].stripe_currency) = Upper(matched[i].cb_currency)

\* C10: after a fresh Stage 1 run no Stripe entry other than a failure refund
\* is listed unmatched while a Cashbook entry with the same key is left over;
\* one entry on each side with client 123, 10/01/2024, 50.00, USD gives exactly
\* one pair and empty unmatched lists.
C10_Stage1Complete ==
    (resp.op = "process1" /\ resp.status = 200 /\ ~resp.cached)
    => /\ \A s \in ListedIds(resp), c \in ListedCashbookIds(resp) :
            LET stripe_tx == stripe_transactions[s]
                cashbook_tx == cashbook_transactions[c]
            IN (/\ stripe_tx.type # "Payment Failure Refund"
                /\ HasKey(stripe_tx.created, stripe_tx.amount)
                /\ HasKey(cashbook_tx.payment_date, cashbook_tx.amount))
               => StripeKey(stripe_tx) # CashbookKey(cashbook_tx)
       /\ ( /\ Len(stripe_transactions) = 1 /\ Len(cashbook_transactions) = 1
            /\ stripe_transactions[1].type = "Charge"
            /\ StripeKey(stripe_transactions[1]) = <<"123", 10, 50000, "USD">>
            /\ CashbookKey(cashbook_transactions[1]) = <<"123", 10, 50000, "USD">> )
          => /\ resp.perfect_matches = << <<1, 1>> >>
             /\ Len(matched) = 1
             /\ resp.unmatched_stripe = <<>>
             /\ ListedCashbookIds(resp) = {}

\* a fresh Stage 1 run paired one Stripe entry and left another unmatched
\* although Cashbook entries remain
C10_Witness ==
    /\ resp.op = "process1" /\ resp.status = 200 /\ ~resp.cached
    /\ Len(resp.perfect_matches) = 1
    /\ \E s \in ListedIds(resp) : /\ stripe_transactions[s].type = "Charge"
                                  /\ HasKey(stripe_transactions[s].created,
                                            stripe_transactions[s].amount)
    /\ ListedCashbookIds(resp) # {}

----------------------------------------------------------------------------
(* Stages 1 and 2 over Stripe ledgers that vary in kind and in date format *)

StripeUniverseKinds ==
    { StripeRow("123", <<>>, "Charge", <<"dmy", 10>>, <<50000>>, "usd"),
      StripeRow("123", <<>>, "Payment Failure Refund", <<"dmy", 11>>, <<50000>>, "usd"),
      StripeRow("", <<>>, "Stripe Fee", <<"dmy", 12>>, <<50000>>, "usd"),
      StripeRow("123", <<>>, "Charge", <<"raw", 1>>, <<50000>>, "usd") }

InitKinds ==
    /\ subsidiary_id \in {US, EU}
    /\ stripe_transactions \in Ledgers(StripeUniverseKinds)
    /\ cashbook_transactions \in Sheets(CashbookUniverse)
    /\ matched = <<>>
    /\ results = <<>>
    /\ resp = EmptyResp
    /\ fp = FPDataset(<<>>, <<>>)
    /\ journal_transactions = <<>>
    /\ inflight = <<>>
    /\ last_id = [stripe |-> Len(stripe_transactions), cashbook |-> Len(cashbook_transactions)]

NextKinds ==
    \/ Process1Match(FALSE)
    \/ Process2Match(FALSE)
    \/ DeleteProcessMatches(1)

SpecKinds == InitKinds /\ [][NextKinds]_vars

\* the days of the Stripe entries that are no processing fee and whose timestamp parses
NonFeeDays ==
    { t.created[2] : t \in { u \in Range(stripe_transactions) :
                               /\ u.type # "Stripe Fee" /\ u.type # "Network Cost"
                               /\ u.created # <<>> /\ u.created[1] = "dmy" } }

\* C11: Stage 1 takes as cutoff the latest parsed date among the Stripe entries
\* that are no processing fee; with no such entry or no parsed date among them
\* it fails (400) and creates no MatchedTransaction and no summary row.
C11_Cutoff ==
    [][ resp'.op = "process1"
        => IF NonFeeDays = {}
           THEN resp'.status = 400 /\ matched' = matched /\ results' = results
           ELSE /\ resp'.status = 200
                /\ resp'.cutoff_date = <<"dmy", CHOOSE d \in NonFeeDays :
                                                   \A e \in NonFeeDays : e <= d>>
                /\ \A i \in 1..Len(results') :
                      (i > Len(results) /\ results'[i].process_number = 1)
                      => results'[i].cutoff_date = resp'.cutoff_date ]_vars

\* Stage 1 ran on a ledger whose latest entry is a processing fee
C11_Witness ==
    /\ resp.op = "process1" /\ resp.status = 200
    /\ resp.cutoff_date = <<"dmy", 10>>
    /\ \E i \in 1..Len(stripe_transactions) :
          /\ stripe_transactions[i].type = "Stripe Fee"
          /\ stripe_transactions[i].created = <<"dmy", 12>>
    /\ Len(SummariesOfProcess(1)) = 1

\* C12: no MatchedTransaction created by Stage 1 or Stage 2 references a Stripe
\* entry whose kind is payment-failure-refund.
C12_NoFailureRefundPaired ==
    \A i \in 1..Len(matched) :
        /\ matched[i].stripe_type # "Payment Failure Refund"
        /\ stripe_transactions[matched[i].stripe_id].type # "Payment Failure Refund"

\* Stage 2 ran and left both a failure refund and a Cashbook entry of the same
\* client and amount, one day apart, unpaired
C12_Witness ==
    /\ resp.op = "process2" /\ resp.status = 200
    /\ \E s \in 1..Len(stripe_transactions), c \in Range(resp.unmatched_cashbook) :
          /\ stripe_transactions[s].type = "Payment Failure Refund"
          /\ stripe_transactions[s].client_number = StrClient(cashbook_transactions[c].client_id)
          /\ stripe_transactions[s].amount = cashbook_transactions[c].amount
          /\ Abs(stripe_transactions[s].created[2] - cashbook_transactions[c].payment_date[2]) = 1

----------------------------------------------------------------------------
(* Stage 2 of the EU subsidiary on its own, over ledgers that vary in client,
   description client, currency and date *)

StripeUniverseStage2EU ==
    { StripeRow("123", <<>>, "Charge", <<"dmy", 10>>, <<50000>>, "usd"),
      StripeRow("456", <<"123">>, "Charge", <<"dmy", 10>>, <<50000>>, "usd"),
      StripeRow("123", <<>>, "Charge", <<"dmy", 10>>, <<50000>>, "aed"),
      StripeRow("789", <<>>, "Charge", <<"dmy", 10>>, <<50000>>, "usd") }

CashbookUniverseStage2EU ==
    { CashbookRow(<<123>>, <<"dmy", 10>>, <<50000>>, "EUR", subsidiary_mapping(EU), "INV-1"),
      CashbookRow(<<123>>, <<"dmy", 12>>, <<50000>>, "USD", subsidiary_mapping(EU), "INV-2"),
      CashbookRow(<<123>>, <<"dmy", 9>>, <<50000>>, "AED", subsidiary_mapping(EU), "INV-3"),
      CashbookRow(<<999>>, <<"dmy", 11>>, <<50000>>, "USD", subsidiary_mapping(EU), "INV-4") }

InitStage2EU ==
    /\ subsidiary_id = EU
    /\ stripe_transactions \in Ledgers(StripeUniverseStage2EU)
    /\ cashbook_transactions \in Ledgers(CashbookUniverseStage2EU)
    /\ matched = <<>>
    /\ results = <<>>
    /\ resp = EmptyResp
    /\ fp = FPDataset(<<>>, <<>>)
    /\ journal_transactions = <<>>
    /\ inflight = <<>>
    /\ last_id = [stripe |-> Len(stripe_transactions), cashbook |-> Len(cashbook_transactions)]

NextStage2EU ==
    \/ Process2Match(FALSE)
    \/ DeleteProcessMatches(2)

SpecStage2EU == InitStage2EU /\ [][NextStage2EU]_vars

\* the pass (1 = A, 2 = B, 3 = C) that wrote a match type of the EU Stage 2
PassOf(match_type) ==
    IF match_type \in {"desc_client_amount_" \o DayStr(d) : d \in 0..5} THEN 1
    ELSE IF match_type \in {"client_amount_" \o DayStr(d) : d \in 0..5} THEN 2
    ELSE IF match_type \in {"date_amount_only_" \o DayStr(d) : d \in 0..5} THEN 3
    ELSE 0

\* the AED guard of the specification
GuardAdmits(s, c) == Upper(s.currency) = "AED" => Upper(c.currency) = "AED"

\* c has client identifier client and the amount of s and lies within 5 days of s
ClientAmountCandidate(client, s, c) ==
    /\ StrClient(c.client_id) = client
    /\ Round2(c.amount[1]) = Round2(s.amount[1])
    /\ Abs(c.payment_date[2] - s.created[2]) <= 5
    /\ GuardAdmits(s, c)

\* C13: within one EU Stage 2 invocation the pairs of Pass A are written before
\* those of Pass B, and those before Pass C; no Stripe entry and no Cashbook
\* entry is paired twice or paired again after an earlier pair; an entry that
\* a later pass pairs or leaves over was no candidate of an earlier pass for
\* any Cashbook entry a later pass consumes.
C13_PassOrder ==
    [][ (resp'.op = "process2" /\ resp'.status = 200 /\ subsidiary_id = EU)
        => LET n == Len(matched)
               new == SubSeq(matched', n + 1, Len(matched'))
               PassAOf(id) == \E k \in 1..Len(new) :
                                 new[k].stripe_id = id /\ PassOf(new[k].match_type) = 1
               PassABOf(id) == \E k \in 1..Len(new) :
                                 new[k].stripe_id = id /\ PassOf(new[k].match_type) \in {1, 2}
           IN /\ SubSeq(matched', 1, n) = matched
              /\ \A k \in 1..Len(new) : PassOf(new[k].match_type) \in 1..3
              /\ \A j, k \in 1..Len(new) :
                    j < k => /\ PassOf(new[j].match_type) <= PassOf(new[k].match_type)
                             /\ new[j].stripe_id # new[k].stripe_id
                             /\ new[j].cashbook_id # new[k].cashbook_id
              /\ \A k \in 1..Len(new) :
                    /\ new[k].stripe_id \notin matched_stripe_ids_of(matched)
                    /\ new[k].cashbook_id \notin matched_cashbook_ids_of(matched)
              /\ \A k \in 1..Len(new), i \in 1..Len(stripe_transactions) :
                    LET s == stripe_transactions[i]
                        c == cashbook_transactions[new[k].cashbook_id]
                    IN /\ (/\ PassOf(new[k].match_type) > 1
                           /\ s.id \notin matched_stripe_ids_of(matched)
                           /\ s.description_client_id # <<>>
                           /\ ClientAmountCandidate(s.description_client_id[1], s, c))
                          => PassAOf(s.id)
                       /\ (/\ PassOf(new[k].match_type) > 2
                           /\ s.id \notin matched_stripe_ids_of(matched)
                           /\ ClientAmountCandidate(s.client_number, s, c))
                          => PassABOf(s.id) ]_vars

\* the second Stripe entry was paired by Pass A before the first one was
\* paired by Pass B
C13_Witness ==
    /\ resp.op = "process2" /\ resp.status = 200 /\ subsidiary_id = EU
    /\ Len(matched) = 2
    /\ matched[1].stripe_id = 2 /\ PassOf(matched[1].match_type) = 1
    /\ matched[2].stripe_id = 1 /\ PassOf(matched[2].match_type) = 2

\* the Cashbook ids still available when the k-th new pair of a Stage 2
\* invocation was written
AvailableAt(k, new, existing) ==
    {c.id : c \in Range(cashbook_transactions)}
        \ (matched_cashbook_ids_of(existing) \cup {new[j].cashbook_id : j \in 1..(k - 1)})

DateDiff(s, c) == Abs(c.payment_date[2] - s.created[2])

\* C14 as stated: the candidate Pass A accepts has the smallest date difference
\* among the available candidates, the first in the list among equals.
C14_PassASmallestDifference ==
    [][ (resp'.op = "process2" /\ resp'.status = 200 /\ subsidiary_id = EU)
        => LET new == SubSeq(matched', Len(matched) + 1, Len(matched')) IN
           \A k \in 1..Len(new) : \A id \in AvailableAt(k, new, matched) :
              LET s == stripe_transactions[new[k].stripe_id]
                  a == cashbook_transactions[new[k].cashbook_id]
                  c == cashbook_transactions[id]
              IN (/\ PassOf(new[k].match_type) = 1
                  /\ ClientAmountCandidate(s.description_client_id[1], s, c))
                 => \/ DateDiff(s, a) < DateDiff(s, c)
                    \/ DateDiff(s, a) = DateDiff(s, c) /\ a.id <= c.id ]_vars

\* C14 amended: the candidate Pass A accepts is the first available candidate
\* of the list within 5 days, whatever its date difference.
C14_PassAFirstFound ==
    [][ (resp'.op = "process2" /\ resp'.status = 200 /\ subsidiary_id = EU)
        => LET new == SubSeq(matched', Len(matched) + 1, Len(matched')) IN
           \A k \in 1..Len(new) :
              LET s == stripe_transactions[new[k].stripe_id]
                  a == cashbook_transactions[new[k].cashbook_id]
              IN PassOf(new[k].match_type) = 1
                 => /\ s.description_client_id # <<>>
                    /\ a.id \in AvailableAt(k, new, matched)
                    /\ ClientAmountCandidate(s.description_client_id[1], s, a)
                    /\ \A id \in AvailableAt(k, new, matched) :
                          ClientAmountCandidate(s.description_client_id[1], s,
                                                cashbook_transactions[id])
                          => a.id <= id ]_vars

\* Pass A accepted the first listed candidate, two days off, although a
\* same-day candidate follows in the list
C14_Witness ==
    /\ resp.op = "process2" /\ resp.status = 200 /\ subsidiary_id = EU
    /\ Len(matched) = 1
    /\ PassOf(matched[1].match_type) = 1
    /\ matched[1].cashbook_id = 1
    /\ matched[1].cb_payment_date = <<"dmy", 12>>
    /\ Len(cashbook_transactions) = 2
    /\ cashbook_transactions[2].payment_date = <<"dmy", 10>>
    /\ StrClient(cashbook_transactions[2].client_id) = "123"

\* position of a date offset in the scan 0, +1, -1, +2, -2, ...
ScanPos(d) == IF d = 0 THEN 0 ELSE IF d > 0 THEN 2 * d - 1 ELSE -2 * d

\* c has the amount of s, lies within 5 days of s and passes the AED guard
DateAmountCandidate(s, c) ==
    /\ c.payment_date # <<>> /\ c.payment_date[1] = "dmy"
    /\ c.amount # <<>> /\ c.amount[1] # 0
    /\ Round2(c.amount[1]) = Round2(s.amount[1])
    /\ Abs(c.payment_date[2] - s.created[2]) <= 5
    /\ GuardAdmits(s, c)

\* C15: every Pass C pair joins entries with equal rounded amount, at most 5
\* days apart, and no available candidate admitted by the currency guard lies
\* at an offset that comes earlier in the scan 0, +1, -1, +2, -2, ...
C15_PassCSmallestOffset ==
    [][ (resp'.op = "process2" /\ resp'.status = 200 /\ subsidiary_id = EU)
        => LET new == SubSeq(matched', Len(matched) + 1, Len(matched')) IN
           \A k \in 1..Len(new) :
              LET s == stripe_transactions[new[k].stripe_id]
                  a == cashbook_transactions[new[k].cashbook_id]
              IN PassOf(new[k].match_type) = 3
                 => /\ a.id \in AvailableAt(k, new, matched)
                    /\ DateAmountCandidate(s, a)
                    /\ \A id \in AvailableAt(k, new, matched) :
                          DateAmountCandidate(s, cashbook_transactions[id])
                          => ScanPos(a.payment_date[2] - s.created[2])
                                <= ScanPos(cashbook_transactions[id].payment_date[2]
                                           - s.created[2]) ]_vars

\* Pass C accepted the entry one day ahead although an entry one day back
\* comes first in the list
C15_Witness ==
    /\ resp.op = "process2" /\ resp.status = 200 /\ subsidiary_id = EU
    /\ Len(matched) = 1
    /\ PassOf(matched[1].match_type) = 3
    /\ matched[1].stripe_created = <<"dmy", 10>>
    /\ matched[1].cb_payment_date = <<"dmy", 11>>
    /\ matched[1].cashbook_id = 2
    /\ cashbook_transactions[1].payment_date = <<"dmy", 9>>

\* C16: a pair of the EU Stage 2 whose Stripe entry is in AED has a Cashbook
\* entry in AED; for other Stripe currencies the Cashbook currency is free.
C16_SpecialCurrencyGuard ==
    subsidiary_id = EU
    => \A i \in 1..Len(matched) :
          (matched[i].process_number = 2 /\ Upper(matched[i].stripe_currency) = "AED")
          => Upper(matched[i].cb_currency) = "AED"

\* an AED Stripe entry skipped the EUR entry listed first and was paired with
\* the AED entry, while a USD Stripe entry was paired with the EUR entry
C16_Witness ==
    /\ resp.op = "process2" /\ resp.status = 200 /\ subsidiary_id = EU
    /\ Len(matched) = 2
    /\ \E i, j \in 1..2 :
          /\ matched[i].stripe_currency = "aed" /\ matched[i].cb_currency = "AED"
          /\ matched[i].cashbook_id = 2
          /\ matched[j].stripe_currency = "usd" /\ matched[j].cb_currency = "EUR"
          /\ matched[j].cashbook_id = 1
          /\ matched[i].stripe_client_number = matched[j].stripe_client_number

----------------------------------------------------------------------------
(* Stages 1 to 3 over Stripe ledgers with refunds, fees and unknown clients *)

StripeUniverseStage3 ==
    { StripeRow("0", <<>>, "Charge", <<"dmy", 10>>, <<-5000>>, "usd"),
      StripeRow("0", <<>>, "Stripe Fee", <<"dmy", 10>>, <<1000>>, "usd"),
      StripeRow("123", <<>>, "Charge", <<"dmy", 8>>, <<50000>>, "usd"),
      StripeRow("456", <<>>, "Refund", <<"dmy", 10>>, <<50000>>, "usd"),
      StripeRow("789", <<>>, "Charge", <<"dmy", 10>>, <<70000>>, "usd") }

CashbookUniverseStage3 ==
    { CashbookRow(<<123>>, <<"dmy", 10>>, <<50000>>, "USD", subsidiary_mapping(US), "INV-1"),
      CashbookRow(<<456>>, <<"dmy", 8>>, <<50000>>, "USD", subsidiary_mapping(US), "INV-2") }

InitStage3 ==
    /\ subsidiary_id \in {US, EU}
    /\ stripe_transactions \in Ledgers(StripeUniverseStage3)
    /\ cashbook_transactions \in Sheets(CashbookUniverseStage3)
    /\ matched = <<>>
    /\ results = <<>>
    /\ resp = EmptyResp
    /\ fp = FPDataset(<<>>, <<>>)
    /\ journal_transactions = <<>>
    /\ inflight = <<>>
    /\ last_id = [stripe |-> Len(stripe_transactions), cashbook |-> Len(cashbook_transactions)]

NextStage3 ==
    \/ Process1Match(FALSE)
    \/ Process2Match(FALSE)
    \/ Process3Match(FALSE)
    \/ DeleteProcessMatches(1)

SpecStage3 == InitStage3 /\ [][NextStage3]_vars

\* the rules of the classifier, in the words of the specification
RefundRule(t) == (t.amount # <<>> /\ t.amount[1] < 0) \/ t.type \in {"Refund", "refund"}

FeeRule(t) == t.client_number = "0"

CrossEntityRule(t) ==
    \E c \in Range(cashbook_transactions) :
        /\ c.billing_entity # subsidiary_mapping(subsidiary_id)
        /\ c.payment_date = t.created
        /\ Abs(OrZero(c.amount) - OrZero(t.amount)) < 10

NearMatchRule(t) ==
    \E c \in Range(cashbook_transactions) :
        /\ c.client_id # <<>> /\ StrClient(c.client_id) = t.client_number
        /\ Abs(OrZero(c.amount) - OrZero(t.amount)) < 10
        /\ t.created # <<>> /\ t.created[1] = "dmy"
        /\ c.payment_date # <<>> /\ c.payment_date[1] = "dmy"
        /\ Abs(t.created[2] - c.payment_date[2]) <= 2

\* the set the first applicable rule names
RuleOf(t) ==
    IF RefundRule(t) THEN "refunds"
    ELSE IF FeeRule(t) THEN "fees"
    ELSE IF CrossEntityRule(t) THEN "cross_subsidiary"
    ELSE IF NearMatchRule(t) THEN "near_matches"
    ELSE "unmatched_stripe"

Stage3Sets(r) ==
    [ refunds |-> r.refunds, fees |-> r.fees, cross_subsidiary |-> r.cross_subsidiary,
      near_matches |-> r.near_matches, unmatched_stripe |-> r.unmatched_stripe ]

\* C17: Stage 3 puts every Stripe entry that no MatchedTransaction references
\* in exactly one of the five sets, the one named by the first rule that
\* applies in the order refund, fee, cross-entity, near-match, residual, and
\* puts no other entry in any set.
C17_Classification ==
    (resp.op = "process3" /\ resp.status = 200)
    => LET sets == Stage3Sets(resp) IN
       /\ \A i \in 1..Len(stripe_transactions) :
             LET t == stripe_transactions[i] IN
             \A cat \in DOMAIN sets :
                (\E k \in 1..Len(sets[cat]) : sets[cat][k] = t.id)
                <=> (t.id \notin matched_stripe_ids_of(matched) /\ RuleOf(t) = cat)
       /\ \A cat \in DOMAIN sets :
             /\ Range(sets[cat]) \subseteq {t.id : t \in Range(stripe_transactions)}
             /\ Cardinality(Range(sets[cat])) = Len(sets[cat])

\* after Stages 1 and 2, Stage 3 put an entry with negative amount and client
\* "0" with the refunds and a fee entry with the fees
C17_Witness ==
    /\ resp.op = "process3" /\ resp.status = 200
    /\ Len(SummariesOfProcess(1)) > 0 /\ Len(SummariesOfProcess(2)) > 0
    /\ \E i \in Range(resp.refunds) :
          /\ stripe_transactions[i].client_number = "0"
          /\ stripe_transactions[i].amount[1] < 0
    /\ resp.fees # <<>>

\* sum of the Stripe amounts copied into a sequence of MatchedTransactions
RECURSIVE MatchedStripeAmount(_)
MatchedStripeAmount(rows) ==
    IF rows = <<>> THEN 0
    ELSE OrZero(rows[1].stripe_amount) + MatchedStripeAmount(Tail(rows))

\* sum of the amounts of the Stripe entries with the listed ids
RECURSIVE LedgerAmount(_)
LedgerAmount(ids) ==
    IF ids = <<>> THEN 0
    ELSE OrZero(stripe_transactions[ids[1]].amount) + LedgerAmount(Tail(ids))

\* C18: after Stage 3 the Stripe amounts of all MatchedTransactions plus the
\* amounts of all Stripe entries Stage 3 classified add up to the amounts of
\* all Stripe entries of the scope.
C18_Conservation ==
    (resp.op = "process3" /\ resp.status = 200)
    => MatchedStripeAmount(matched)
         + LedgerAmount(resp.refunds \o resp.fees \o resp.cross_subsidiary
                        \o resp.near_matches \o resp.unmatched_stripe)
       = LedgerAmount(Ids(stripe_transactions))

\* C19: installment processing and the journal download insert, update and
\* delete no MatchedTransaction.
C19_ReadOnlyDownstream ==
    [][ resp'.op \in {"installments", "split"} => matched' = matched ]_vars

----------------------------------------------------------------------------
(* Allocation of installments over the uploaded journals (further          *)
(* processing).  Amounts are thousandths (30.00 = 30000); a quotient of    *)
(* two amounts is taken to the thousandth.                                 *)

SummitType == "Salon_Summit_Installments"

\* a journal row; client_number is the column of that name in row_json
\* ("" when the uploaded file has no such column)
FPJournalRow(journal_type, client_id, client_number, amount) ==
    [ journal_type |-> journal_type, client_id |-> client_id,
      client_number |-> client_number, amount |-> amount ]

FPSummitInstallment(client_id, installment_amount) ==
    [ client_id |-> client_id, installment_amount |-> installment_amount ]

FPMatchResult(client_id, match_status, total_received, installment_amount, remaining_amount) ==
    [ client_id |-> client_id, match_status |-> match_status,
      total_received |-> total_received, installment_amount |-> installment_amount,
      remaining_amount |-> remaining_amount ]

\* keys of a dict filled by scanning ids: the distinct ids in order of first occurrence
dict_keys(ids) ==
    LET first == SelectSeq([i \in 1..Len(ids) |-> i],
                           LAMBDA i : \A j \in 1..(i - 1) : ids[j] # ids[i])
    IN  [k \in 1..Len(first) |-> ids[first[k]]]

ClientIds(rows) == [i \in 1..Len(rows) |-> rows[i].client_id]

\* sum of the amounts of the rows of one client
RECURSIVE client_totals(_, _)
client_totals(rows, client_id) ==
    IF rows = <<>> THEN 0
    ELSE (IF Head(rows).client_id = client_id THEN Head(rows).amount ELSE 0)
         + client_totals(Tail(rows), client_id)

\* sum of the installments uploaded for one client
RECURSIVE summit_by_client(_, _)
summit_by_client(installments, client_id) ==
    IF installments = <<>> THEN 0
    ELSE (IF Head(installments).client_id = client_id
          THEN Head(installments).installment_amount ELSE 0)
         + summit_by_client(Tail(installments), client_id)

\* the clients of a lookup keyed by non-empty client id
in_lookup(rows, client_id) ==
    client_id # "" /\ \E i \in 1..Len(rows) : rows[i].client_id = client_id

\* (amount / total) * installment to the thousandth; a factor 1000 common to
\* amount and total is cancelled before the product is formed
Share(amount, total, installment) ==
    IF amount % 1000 = 0 /\ total % 1000 = 0
    THEN ((amount \div 1000) * installment) \div (total \div 1000)
    ELSE (amount * installment) \div total

\* row.amount when every row of the client is reduced by the whole installment
reduced_amount_whole(current_amount, total_amount, installment_amount) ==
    current_amount - installment_amount

\* row.amount after the proportional reduction of one client's rows
reduced_amount(current_amount, total_amount, installment_amount) ==
    current_amount - Share(current_amount, total_amount, installment_amount)

\* the match-summit verdict for one summit client
match_result_of(journal_rows_, installments, client_id) ==
    LET installment_amount == summit_by_client(installments, client_id)
        total_received == client_totals(journal_rows_, client_id)
    IN  IF ~in_lookup(journal_rows_, client_id)
        THEN FPMatchResult(client_id, "unmatched", 0, installment_amount, 0)
        ELSE IF total_received < installment_amount
        THEN FPMatchResult(client_id, "insufficient", total_received, installment_amount,
                           total_received - installment_amount)
        ELSE FPMatchResult(client_id, "matched", total_received, installment_amount,
                           total_received - installment_amount)

match_results_of(journal_rows_, installments) ==
    LET keys == SelectSeq(dict_keys(ClientIds(installments)),
                          LAMBDA c : summit_by_client(installments, c) > 0)
    IN  [k \in 1..Len(keys) |-> match_result_of(journal_rows_, installments, keys[k])]

\* generate_journals: the matched results it reads
matched_results(match_results_) ==
    SelectSeq(match_results_, LAMBDA m : m.match_status = "matched")

\* matched_clients[client_id]: a later result of the same client overwrites an earlier one
matched_clients(match_results_, client_id) ==
    LET ms == SelectSeq(matched_results(match_results_), LAMBDA m : m.client_id = client_id)
    IN  ms[Len(ms)]

in_matched_clients(match_results_, client_id) ==
    \E i \in 1..Len(match_results_) :
        /\ match_results_[i].match_status = "matched"
        /\ match_results_[i].client_id = client_id

\* generate_journals: the amount written for one original row
new_amount(row, match_results_) ==
    IF in_matched_clients(match_results_, row.client_id)
    THEN LET match_info == matched_clients(match_results_, row.client_id)
         IN  IF match_info.total_received > 0
             THEN Share(row.amount, match_info.total_received, match_info.remaining_amount)
             ELSE 0
    ELSE row.amount

GeneratedTypes == <<"Main", "POA", "Cross_Subsidiary", SummitType>>

\* generate_journals: the rows it saves, journal type by journal type; a saved
\* row takes its client_id from the client_number column of row_json
generated_journals(journal_rows_, match_results_) ==
    LET ms == matched_results(match_results_)
        with_template == SelectSeq(ms, LAMBDA m : \E i \in 1..Len(journal_rows_) :
                                                     journal_rows_[i].client_id = m.client_id)
        template_row(m) ==
            journal_rows_[CHOOSE i \in 1..Len(journal_rows_) :
                             /\ journal_rows_[i].client_id = m.client_id
                             /\ \A j \in 1..(i - 1) : journal_rows_[j].client_id # m.client_id]
        originals == [i \in 1..Len(journal_rows_) |->
                        FPJournalRow(journal_rows_[i].journal_type,
                                     journal_rows_[i].client_number,
                                     journal_rows_[i].client_number,
                                     new_amount(journal_rows_[i], match_results_))]
        summit == [k \in 1..Len(with_template) |->
                        FPJournalRow(SummitType,
                                     template_row(with_template[k]).client_number,
                                     template_row(with_template[k]).client_number,
                                     with_template[k].installment_amount)]
        of_type(t) == SelectSeq(originals, LAMBDA r : r.journal_type = t)
    IN  of_type("Main") \o of_type("POA") \o of_type("Cross_Subsidiary")
        \o of_type(SummitType) \o summit

\* an installment row that carries half of the installment
summit_row_half(client_id, first_row, installment_amount) ==
    FPJournalRow(SummitType, client_id, first_row.client_number, installment_amount \div 2)

\* process_summit: the installment row created for a matched client
summit_row(client_id, first_row, installment_amount) ==
    FPJournalRow(SummitType, client_id, first_row.client_number, installment_amount)

\* the summit clients with rows and a non-zero total, whatever the installment
summit_matches_any_amount(journal_rows_, installments) ==
    SelectSeq(dict_keys(ClientIds(installments)),
              LAMBDA c : /\ summit_by_client(installments, c) > 0
                         /\ in_lookup(journal_rows_, c)
                         /\ client_totals(journal_rows_, c) # 0)

\* process_summit: the summit clients whose rows are reduced, in dict order
summit_matches(journal_rows_, installments) ==
    SelectSeq(dict_keys(ClientIds(installments)),
              LAMBDA c : /\ summit_by_client(installments, c) > 0
                         /\ in_lookup(journal_rows_, c)
                         /\ client_totals(journal_rows_, c) >= summit_by_client(installments, c)
                         /\ client_totals(journal_rows_, c) > 0)

\* process_summit: the reason it records for a summit client it does not match
unmatched_reason(journal_rows_, installments, c) ==
    IF ~in_lookup(journal_rows_, c) THEN "Not found in database"
    ELSE IF client_totals(journal_rows_, c) < summit_by_client(installments, c)
    THEN "Insufficient amount"
    ELSE "Zero amount in database"

\* process_summit: the list unmatched_clients it builds, in dict order
unmatched_clients(journal_rows_, installments) ==
    LET keys == SelectSeq(dict_keys(ClientIds(installments)),
                          LAMBDA c : /\ summit_by_client(installments, c) > 0
                                     /\ (\/ ~in_lookup(journal_rows_, c)
                                         \/ client_totals(journal_rows_, c)
                                               < summit_by_client(installments, c)
                                         \/ client_totals(journal_rows_, c) <= 0))
    IN  [k \in 1..Len(keys) |->
            [ oak_id |-> keys[k],
              installment_amount |-> summit_by_client(installments, keys[k]),
              reason |-> unmatched_reason(journal_rows_, installments, keys[k]) ]]

\* process_summit: the processed journal, a copy of the journal rows with the
\* matched clients' rows reduced, followed by one summit row per matched client
processed_journal(journal_rows_, installments) ==
    LET clients == summit_matches(journal_rows_, installments)
        reduced == [i \in 1..Len(journal_rows_) |->
                      IF journal_rows_[i].client_id \in Range(clients)
                      THEN [journal_rows_[i] EXCEPT !.amount =
                              reduced_amount(journal_rows_[i].amount,
                                             client_totals(journal_rows_, journal_rows_[i].client_id),
                                             summit_by_client(installments, journal_rows_[i].client_id))]
                      ELSE journal_rows_[i]]
        first_row(c) == journal_rows_[CHOOSE i \in 1..Len(journal_rows_) :
                                        /\ journal_rows_[i].client_id = c
                                        /\ \A j \in 1..(i - 1) : journal_rows_[j].client_id # c]
        summit == [k \in 1..Len(clients) |->
                      summit_row(clients[k], first_row(clients[k]),
                                 summit_by_client(installments, clients[k]))]
    IN  reduced \o summit

\* fp_summit_process: the per-client totals it stores before any reduction
original_amounts_of(journal_rows_) ==
    [c \in {journal_rows_[i].client_id : i \in 1..Len(journal_rows_)} \ {""} |->
        client_totals(journal_rows_, c)]

\* fp_summit_process: the summit clients reduced in place, in dict order
in_place_matches(working_rows_, summit_data, original_amounts) ==
    SelectSeq(dict_keys(ClientIds(summit_data)),
              LAMBDA c : /\ c # ""
                         /\ summit_by_client(summit_data, c) > 0
                         /\ \E i \in 1..Len(working_rows_) : working_rows_[i].client_id = c
                         /\ c \in DOMAIN original_amounts
                         /\ original_amounts[c] >= summit_by_client(summit_data, c)
                         /\ client_totals(working_rows_, c) > 0)

\* fp_summit_process: rows after the reduction; the share of every row is taken
\* of the client's current total over the working rows
reduced_in_place(rows, working_rows_, summit_data, clients) ==
    [i \in 1..Len(rows) |->
        IF rows[i].client_id \in Range(clients) /\ rows[i].journal_type # SummitType
        THEN [rows[i] EXCEPT !.amount =
                reduced_amount(rows[i].amount,
                               client_totals(working_rows_, rows[i].client_id),
                               summit_by_client(summit_data, rows[i].client_id))]
        ELSE rows[i]]

\* fp_summit_process: the summit journal rows it appends, from the first working row
summit_journal_rows(working_rows_, summit_data, clients) ==
    [k \in 1..Len(clients) |->
        LET first_working_row ==
                working_rows_[CHOOSE i \in 1..Len(working_rows_) :
                                 /\ working_rows_[i].client_id = clients[k]
                                 /\ \A j \in 1..(i - 1) : working_rows_[j].client_id # clients[k]]
        IN  FPJournalRow(SummitType, first_working_row.client_id,
                         first_working_row.client_number,
                         summit_by_client(summit_data, clients[k]))]

\* fp_summit_clear: every row of a client with a stored original amount gets that amount
restored(rows, original_amounts) ==
    [i \in 1..Len(rows) |->
        IF rows[i].client_id \in DOMAIN original_amounts
        THEN [rows[i] EXCEPT !.amount = original_amounts[rows[i].client_id]]
        ELSE rows[i]]

----------------------------------------------------------------------------
(* Handlers of the further-processing endpoints *)

Reconciliation_unchanged ==
    UNCHANGED <<subsidiary_id, stripe_transactions, cashbook_transactions, matched, results,
                journal_transactions, inflight, last_id>>

Success(op) == [EmptyResp EXCEPT !.op = op, !.status = 200]

\* sum of the amounts of all rows
RECURSIVE TotalAmount(_)
TotalAmount(rows) ==
    IF rows = <<>> THEN 0 ELSE Head(rows).amount + TotalAmount(Tail(rows))

\* sum(d.values()) of a dict written as a function
RECURSIVE sum_values(_)
sum_values(d) ==
    IF DOMAIN d = {} THEN 0
    ELSE LET k == CHOOSE x \in DOMAIN d : TRUE
         IN  d[k] + sum_values([x \in DOMAIN d \ {k} |-> d[x]])

\* generate_journals: 'balanced': abs(difference) < 0.01
balanced_generate(original_rows, processed_rows) ==
    Abs(TotalAmount(processed_rows) - TotalAmount(original_rows)) < 10

\* a flag that is true whenever the totals differ
balanced_summit_never(original_journal_rows, processed_rows_all) ==
    Abs(TotalAmount(original_journal_rows) - TotalAmount(processed_rows_all)) >= 1000

\* process_summit: 'balanced': abs(original_total - processed_total) < 1
balanced_summit(original_journal_rows, processed_rows_all) ==
    Abs(TotalAmount(original_journal_rows) - TotalAmount(processed_rows_all)) < 1000

\* fp_summit_process: verification_passed
verification_passed(original_amounts, summit_data, clients, working_rows_) ==
    LET total_summit_amount ==
            sum_values([c \in Range(clients) |-> summit_by_client(summit_data, c)])
        final_total == total_summit_amount + TotalAmount(working_rows_)
    IN  Abs(final_total - sum_values(original_amounts)) < 10

\* upload_summit
UploadSummit(summit_data) ==
    /\ Reconciliation_unchanged
    /\ IF fp.journal_rows = <<>>
       THEN resp' = Error("upload_summit", 400) /\ UNCHANGED fp
       ELSE IF fp.summit_installments # <<>>
       THEN resp' = Error("upload_summit", 409) /\ UNCHANGED fp
       ELSE IF summit_data = <<>>
       THEN resp' = Error("upload_summit", 400) /\ UNCHANGED fp
       ELSE /\ fp' = [fp EXCEPT !.summit_installments =
                        SelectSeq(summit_data,
                                  LAMBDA item : item.client_id # "" /\ item.installment_amount # 0)]
            /\ resp' = Success("upload_summit")

\* match_summit
MatchSummit ==
    /\ Reconciliation_unchanged
    /\ IF fp.journal_rows = <<>> \/ fp.summit_installments = <<>>
       THEN resp' = Error("match_summit", 400) /\ UNCHANGED fp
       ELSE IF fp.match_results # <<>>
       THEN resp' = Error("match_summit", 409) /\ UNCHANGED fp
       ELSE /\ fp' = [fp EXCEPT !.match_results =
                        match_results_of(fp.journal_rows, fp.summit_installments)]
            /\ resp' = Success("match_summit")

\* generate_journals
GenerateJournals ==
    /\ Reconciliation_unchanged
    /\ IF matched_results(fp.match_results) = <<>>
       THEN resp' = Error("generate_journals", 400) /\ UNCHANGED fp
       ELSE IF \E i \in 1..Len(fp.journal_rows) :
                  fp.journal_rows[i].journal_type \notin Range(GeneratedTypes)
       THEN resp' = Error("generate_journals", 500) /\ UNCHANGED fp
       ELSE /\ fp' = [fp EXCEPT !.processed_journals =
                        generated_journals(fp.journal_rows, fp.match_results)]
            /\ resp' = [Success("generate_journals") EXCEPT !.balanced =
                          <<balanced_generate(fp.journal_rows,
                               generated_journals(fp.journal_rows, fp.match_results))>>]

\* process_summit
ProcessSummit ==
    /\ Reconciliation_unchanged
    /\ IF fp.journal_rows = <<>> \/ fp.match_results = <<>> \/ fp.summit_installments = <<>>
       THEN resp' = Error("process_summit", 400) /\ UNCHANGED fp
       ELSE IF fp.processed_journals # <<>>
       THEN resp' = Error("process_summit", 409) /\ UNCHANGED fp
       ELSE /\ fp' = [fp EXCEPT !.processed_journals =
                        processed_journal(fp.journal_rows, fp.summit_installments)]
            /\ resp' = [Success("process_summit") EXCEPT !.balanced =
                          <<balanced_summit(fp.journal_rows,
                               processed_journal(fp.journal_rows, fp.summit_installments))>>]

\* clear_processing
ClearProcessing ==
    /\ Reconciliation_unchanged
    /\ fp' = [fp EXCEPT !.processed_journals = <<>>, !.summit_installments = <<>>]
    /\ resp' = Success("clear_processing")

\* fp_summit_process; the stored original amounts are committed before the
\* summit_data column is parsed, and parsing a null column raises
FpSummitProcess ==
    /\ Reconciliation_unchanged
    /\ IF fp.summit_installments = <<>>
       THEN resp' = Error("fp_summit_process", 400) /\ UNCHANGED fp
       ELSE IF fp.processed_journals # <<>>
       THEN resp' = Error("fp_summit_process", 409) /\ UNCHANGED fp
       ELSE LET stored == IF IsNone(fp.original_amounts)
                          THEN Some(original_amounts_of(fp.journal_rows))
                          ELSE fp.original_amounts
            IN  IF IsNone(fp.summit_data)
                THEN /\ fp' = [fp EXCEPT !.original_amounts = stored]
                     /\ resp' = Error("fp_summit_process", 500)
                ELSE IF fp.working_rows = <<>>
                THEN /\ fp' = [fp EXCEPT !.original_amounts = stored]
                     /\ resp' = Error("fp_summit_process", 400)
                ELSE LET summit_data == fp.summit_data[1]
                         clients == in_place_matches(fp.working_rows, summit_data, stored[1])
                     IN  /\ fp' = [fp EXCEPT
                                     !.original_amounts = stored,
                                     !.working_rows =
                                        reduced_in_place(fp.working_rows, fp.working_rows,
                                                         summit_data, clients),
                                     !.journal_rows =
                                        reduced_in_place(fp.journal_rows, fp.working_rows,
                                                         summit_data, clients)
                                        \o summit_journal_rows(fp.working_rows, summit_data, clients)]
                         /\ resp' = [Success("fp_summit_process") EXCEPT !.balanced =
                                       <<verification_passed(stored[1], summit_data, clients,
                                            reduced_in_place(fp.working_rows, fp.working_rows,
                                                             summit_data, clients))>>]

\* fp_summit_clear
FpSummitClear ==
    /\ Reconciliation_unchanged
    /\ LET kept == SelectSeq(fp.journal_rows, LAMBDA r : r.journal_type # SummitType)
           has_originals == ~IsNone(fp.original_amounts)
                            /\ DOMAIN fp.original_amounts[1] # {}
       IN  fp' = [fp EXCEPT
                    !.summit_data = None,
                    !.journal_rows = IF has_originals
                                     THEN restored(kept, fp.original_amounts[1]) ELSE kept,
                    !.working_rows = IF has_originals
                                     THEN restored(fp.working_rows, fp.original_amounts[1])
                                     ELSE fp.working_rows]
    /\ resp' = Success("fp_summit_clear")

\* rows an uploaded journal file can hold
FPJournalUniverse ==
    { FPJournalRow("Main", "101", "", 30000),
      FPJournalRow("POA", "101", "", 70000),
      FPJournalRow("Main", "102", "", 30000) }

\* the journal rows of a dataset: one upload per journal type, so the rows of a
\* type are contiguous
FPJournals ==
    UNION {{f \in [1..n -> FPJournalUniverse] :
               \A i \in 1..n, k \in 1..n :
                   (i < k /\ f[i].journal_type = f[k].journal_type)
                   => \A j \in i..k : f[j].journal_type = f[i].journal_type}
           : n \in 1..MaxLedger}

\* rows a summit file can hold
FPSummitRows ==
    { FPSummitInstallment("101", 40000), FPSummitInstallment("102", 40000),
      FPSummitInstallment("999", 10000) }

FPSummitFiles == UNION {[1..n -> FPSummitRows] : n \in 1..MaxCsvRows}

\* a dataset whose journals are uploaded and loaded into the working table
InitAlloc ==
    /\ subsidiary_id = US
    /\ stripe_transactions = <<>>
    /\ cashbook_transactions = <<>>
    /\ matched = <<>>
    /\ results = <<>>
    /\ resp = EmptyResp
    /\ \E f \in FPJournals : fp = FPDataset(f, f)
    /\ journal_transactions = <<>>
    /\ inflight = <<>>
    /\ last_id = [stripe |-> Len(stripe_transactions), cashbook |-> Len(cashbook_transactions)]

NextAlloc ==
    \/ \E summit_data \in FPSummitFiles : UploadSummit(summit_data)
    \/ MatchSummit
    \/ GenerateJournals
    \/ ProcessSummit
    \/ ClearProcessing
    \/ FpSummitProcess
    \/ FpSummitClear

SpecAlloc == InitAlloc /\ [][NextAlloc]_vars

ApplyOps == {"process_summit", "generate_journals", "fp_summit_process"}

\* an allocation has been applied and not yet cleared
Allocated ==
    \/ fp.processed_journals # <<>>
    \/ \E i \in 1..Len(fp.journal_rows) : fp.journal_rows[i].journal_type = SummitType

AmountsOf(rows) == [i \in 1..Len(rows) |-> rows[i].amount]

RowAmounts ==
    <<AmountsOf(fp.journal_rows), AmountsOf(fp.working_rows), AmountsOf(fp.processed_journals)>>

\* C20: once an allocation has been applied to a dataset, every further request
\* to apply allocation is rejected (it does not succeed; the rejection of an
\* otherwise valid request is 409, already processed) and changes no row
\* amount, until the allocation has been cleared
C20_ReapplyRejected ==
    [][ (Allocated /\ resp'.op \in ApplyOps)
        => (resp'.status # 200 /\ RowAmounts' = RowAmounts) ]_vars

RestoreOps == {"clear_processing", "fp_summit_clear"}

\* the amount a row was uploaded with; a row of FPJournalUniverse is determined
\* by its journal type and its client
UploadedAmount(row) ==
    (CHOOSE u \in FPJournalUniverse :
        u.journal_type = row.journal_type /\ u.client_id = row.client_id).amount

\* every journal row and working row has the amount it was uploaded with, and
\* no installment row is among the journal rows
AtSnapshot(fp_) ==
    /\ \A i \in 1..Len(fp_.journal_rows) :
          /\ fp_.journal_rows[i].journal_type # SummitType
          /\ fp_.journal_rows[i].amount = UploadedAmount(fp_.journal_rows[i])
    /\ \A i \in 1..Len(fp_.working_rows) :
          fp_.working_rows[i].amount = UploadedAmount(fp_.working_rows[i])

NoInstallmentRow(rows) == \A i \in 1..Len(rows) : rows[i].journal_type # SummitType

\* C21: applying an allocation and then restoring returns the dataset to its
\* pre-allocation snapshot: every journal row and working row has the amount it
\* had before the allocation and no installment row remains (clear_processing
\* leaves none in the processed journal, fp_summit_clear none among the journal
\* rows)
C21_RestoreToSnapshot ==
    [][ (Allocated /\ resp'.op \in RestoreOps /\ resp'.status = 200)
        => /\ AtSnapshot(fp')
           /\ resp'.op = "clear_processing" => NoInstallmentRow(fp'.processed_journals) ]_vars

\* the clients with an installment row in the processed journal
AppliedClients(fp_) ==
    {fp_.processed_journals[i].client_id :
        i \in {j \in 1..Len(fp_.processed_journals) :
                  fp_.processed_journals[j].journal_type = SummitType}}

\* 0.01 in thousandths
Epsilon == 10

C23_GlobalConservation ==
    (resp.op \in {"process_summit", "generate_journals"} /\ resp.status = 200)
    => Abs(TotalAmount(fp.processed_journals) - TotalAmount(fp.journal_rows)) <= Epsilon

\* the clients named by the uploaded commitments
CommitmentClients(fp_) ==
    {fp_.summit_installments[i].client_id : i \in 1..Len(fp_.summit_installments)}

Commitment(fp_, c) == summit_by_client(fp_.summit_installments, c)

\* the positions of the installment rows of client c in the processed journal
InstallmentRows(fp_, c) ==
    {j \in 1..Len(fp_.processed_journals) :
        /\ fp_.processed_journals[j].journal_type = SummitType
        /\ fp_.processed_journals[j].client_id = c}

\* every row of client c is reduced by its share of the commitment and exactly
\* one installment row of the full commitment is emitted for c
ProportionalRule(fp_, c) ==
    /\ Len(fp_.processed_journals) >= Len(fp_.journal_rows)
    /\ \A i \in 1..Len(fp_.journal_rows) :
          fp_.journal_rows[i].client_id = c
          => fp_.processed_journals[i].amount =
                fp_.journal_rows[i].amount
                - Share(fp_.journal_rows[i].amount, client_totals(fp_.journal_rows, c),
                        Commitment(fp_, c))
    /\ Cardinality(InstallmentRows(fp_, c)) = 1
    /\ \A j \in InstallmentRows(fp_, c) :
          fp_.processed_journals[j].amount = Commitment(fp_, c)

\* client c has exactly two rows, of 30.00 and 70.00, and a commitment of 40.00
ExampleClient(fp_, c) ==
    /\ Commitment(fp_, c) = 40000
    /\ Len(fp_.journal_rows) = 2
    /\ fp_.journal_rows[1].client_id = c /\ fp_.journal_rows[1].amount = 30000
    /\ fp_.journal_rows[2].client_id = c /\ fp_.journal_rows[2].amount = 70000

AfterProcessSummit == resp.op = "process_summit" /\ resp.status = 200

\* C24 as stated: for a client with a non-zero current total every row is
\* reduced by its share and one installment row of the full commitment is
\* emitted; rows of 30.00 and 70.00 with a commitment of 40.00 become 12.00 and
\* 28.00 plus one installment row of 40.00
C24_ProportionalAsStated ==
    AfterProcessSummit
    => \A c \in CommitmentClients(fp) :
          (in_lookup(fp.journal_rows, c) /\ client_totals(fp.journal_rows, c) # 0)
          => /\ ProportionalRule(fp, c)
             /\ ExampleClient(fp, c)
                => /\ fp.processed_journals[1].amount = 12000
                   /\ fp.processed_journals[2].amount = 28000

\* C24: for a client with a non-zero current total that is at least the
\* commitment every row is reduced by its share and one installment row of the
\* full commitment is emitted; rows of 30.00 and 70.00 with a commitment of
\* 40.00 are reduced by 12.00 and 28.00 and become 18.00 and 42.00, plus one
\* installment row of 40.00
C24_Proportional ==
    AfterProcessSummit
    => \A c \in CommitmentClients(fp) :
          (/\ in_lookup(fp.journal_rows, c)
           /\ client_totals(fp.journal_rows, c) # 0
           /\ client_totals(fp.journal_rows, c) >= Commitment(fp, c))
          => /\ ProportionalRule(fp, c)
             /\ ExampleClient(fp, c)
                => /\ fp.processed_journals[1].amount = 18000
                   /\ fp.processed_journals[2].amount = 42000
                   /\ fp.processed_journals[3].amount = 40000

\* process_summit has applied 40.00 to the client with rows of 30.00 and 70.00
C24_Witness ==
    /\ AfterProcessSummit
    /\ \E c \in CommitmentClients(fp) : ExampleClient(fp, c)
    /\ Len(fp.processed_journals) = 3

\* the reasons process_summit records for client c
ReportedReasons(fp_, c) ==
    LET u == unmatched_clients(fp_.journal_rows, fp_.summit_installments)
    IN  {u[k].reason : k \in {j \in 1..Len(u) : u[j].oak_id = c}}

\* no row of client c is modified and no installment row is emitted for c
NotApplied(fp_, c) ==
    /\ Len(fp_.processed_journals) >= Len(fp_.journal_rows)
    /\ \A i \in 1..Len(fp_.journal_rows) :
          fp_.journal_rows[i].client_id = c
          => fp_.processed_journals[i].amount = fp_.journal_rows[i].amount
    /\ InstallmentRows(fp_, c) = {}

\* the commitment of client c exceeds the positive total of the client's rows
Exceeds(fp_, c) ==
    /\ in_lookup(fp_.journal_rows, c)
    /\ client_totals(fp_.journal_rows, c) > 0
    /\ Commitment(fp_, c) > client_totals(fp_.journal_rows, c)

FPJournalUniverseZero ==
    { FPJournalRow("Main", "101", "", 30000),
      FPJournalRow("Main", "103", "", 0) }

FPSummitRowsZero ==
    { FPSummitInstallment("103", 10000), FPSummitInstallment("999", 10000),
      FPSummitInstallment("101", 10000) }

InitAllocZero ==
    /\ subsidiary_id = US
    /\ stripe_transactions = <<>>
    /\ cashbook_transactions = <<>>
    /\ matched = <<>>
    /\ results = <<>>
    /\ resp = EmptyResp
    /\ \E f \in UNION {[1..n -> FPJournalUniverseZero] : n \in 1..MaxLedger} :
          fp = FPDataset(f, f)
    /\ journal_transactions = <<>>
    /\ inflight = <<>>
    /\ last_id = [stripe |-> 0, cashbook |-> 0]

NextAllocZero ==
    \/ \E summit_data \in UNION {[1..n -> FPSummitRowsZero] : n \in 1..MaxCsvRows} :
          UploadSummit(summit_data)
    \/ MatchSummit
    \/ ProcessSummit
    \/ ClearProcessing

SpecAllocZero == InitAllocZero /\ [][NextAllocZero]_vars

\* C26: a commitment for a client that has no rows is recorded unmatched with
\* the reason "not found", a commitment for a client whose rows total 0 with
\* the reason "zero amount"; in both cases no row amount is modified
C26_UnmatchedReasons ==
    AfterProcessSummit
    => \A c \in CommitmentClients(fp) :
          /\ ~in_lookup(fp.journal_rows, c)
             => (ReportedReasons(fp, c) = {"Not found in database"} /\ NotApplied(fp, c))
          /\ (in_lookup(fp.journal_rows, c) /\ client_totals(fp.journal_rows, c) = 0)
             => (ReportedReasons(fp, c) = {"Zero amount in database"} /\ NotApplied(fp, c))

----------------------------------------------------------------------------
(* Installment uploads that name one client twice *)

\* an installment CSV with two rows of the same client
DuplicateCsvFiles == [1..2 -> CsvRows]

NextInstallments ==
    \/ Process1Match(FALSE)
    \/ Process2Match(FALSE)
    \/ DeleteAllMatches
    \/ \E csv \in CsvFiles \cup DuplicateCsvFiles : ProcessInstallments(csv)
    \/ DownloadSplitJournals

SpecInstallments == InitOps /\ [][NextInstallments]_vars

\* the rows of the matched table added by a step
AddedMatches == {j \in 1..Len(matched') : j > Len(matched)}

\* C27: several commitments for the same client within one upload have the
\* effect of a single commitment of their sum: one upload produces at most one
\* installment row for a client
C27_DuplicatesSummed ==
    [][ (resp'.op = "installments" /\ resp'.status = 200)
        => \A j \in AddedMatches : \A k \in AddedMatches :
              (j # k) => matched'[j].cb_client_id # matched'[k].cb_client_id ]_vars

----------------------------------------------------------------------------
(* Journal builders: the split of the master journal and the refunds journal *)

\* str.contains('POA', case=False)
contains_poa(inv) == HasPOA(inv)

\* calendar.monthrange: the last day of the month of a day; days count from 1
\* through months of DaysInMonth days
DaysInMonth == 31

end_of_month(day) == ((day - 1) \div DaysInMonth) * DaysInMonth + DaysInMonth

\* _generate_refunds_journal: the end of the month of the first refund's
\* payment_date, "30/09/2025" when the date does not parse
FallbackEom == <<"fixed", "30/09/2025">>

eom_date(payment_date) ==
    IF ParseDMY(payment_date) # <<>>
    THEN <<"dmy", end_of_month(ParseDMY(payment_date)[1])>>
    ELSE FallbackEom

\* generate_master_journal: sort_values('payment_date') over the row numbers
\* of the matched table; rows of one date keep their table order
RECURSIVE sort_by_payment_date(_, _)
sort_by_payment_date(matches, todo) ==
    IF todo = {} THEN <<>>
    ELSE LET key(i) == IF ParseDMY(matches[i].cb_payment_date) # <<>>
                       THEN ParseDMY(matches[i].cb_payment_date)[1] ELSE 0
             first == CHOOSE i \in todo :
                         \A j \in todo : key(i) < key(j) \/ (key(i) = key(j) /\ i <= j)
         IN <<first>> \o sort_by_payment_date(matches, todo \ {first})

\* generate_master_journal of JournalBuilder
master_journal(matches) == sort_by_payment_date(matches, 1..Len(matches))

\* generate_master_journal of JournalBuilderEU keeps the table order
master_journal_eu(matches) == [i \in 1..Len(matches) |-> i]

\* the 'amount' column of the master frame is stripe_amount; a column that
\* holds None only keeps dtype object and its comparison with 0 raises
amount_raises(matches, idx) ==
    idx # <<>> /\ \A i \in 1..Len(matches) : matches[i].stripe_amount = <<>>

\* amount < 0 on the float column: False for NaN
amount_negative(match) == match.stripe_amount # <<>> /\ match.stripe_amount[1] < 0

\* amount >= 0 on the float column: False for NaN
amount_non_negative(match) == match.stripe_amount # <<>> /\ match.stripe_amount[1] >= 0

RECURSIVE SumAmounts(_, _)
SumAmounts(matches, idx) ==
    IF idx = <<>> THEN 0
    ELSE OrZero(matches[Head(idx)].stripe_amount) + SumAmounts(matches, Tail(idx))

RefundLine(date, dr, cr, row) == [ Date |-> date, Dr |-> dr, Cr |-> cr, row |-> row ]

\* JournalBuilder._generate_refunds_journal: one Dr line per refund, then one
\* Cr line of the total dated at the end of the month
generate_refunds_journal(matches, refunds) ==
    [k \in 1..Len(refunds) |->
        RefundLine(matches[refunds[k]].cb_payment_date,
                   <<Abs(matches[refunds[k]].stripe_amount[1])>>, <<>>, refunds[k])]
    \o << RefundLine(eom_date(matches[refunds[1]].cb_payment_date),
                     <<>>, <<Abs(SumAmounts(matches, refunds))>>, 0) >>

\* JournalBuilderEU._generate_refunds_journal: a Dr line and a Cr line per refund
RECURSIVE generate_refunds_journal_eu(_, _)
generate_refunds_journal_eu(matches, refunds) ==
    IF refunds = <<>> THEN <<>>
    ELSE LET m == matches[Head(refunds)]
             amount == Abs(OrZero(m.stripe_amount))
         IN << RefundLine(m.cb_payment_date, <<amount>>, <<>>, Head(refunds)),
               RefundLine(m.cb_payment_date, <<>>, <<amount>>, Head(refunds)) >>
            \o generate_refunds_journal_eu(matches, Tail(refunds))

Journal(kind, aed, rows_, lines_) ==
    [ kind |-> kind, aed |-> aed, rows |-> rows_, lines |-> lines_ ]

\* the journals dict keeps only the journals that have rows
NonEmpty(journals) == SelectSeq(journals, LAMBDA j : j.rows # <<>>)

\* JournalBuilder.split_journals: refunds, then POA among the amounts >= 0,
\* then cross-subsidiary among the rest, then main
split_journals(matches, sid) ==
    LET master_df == master_journal(matches)
        current_billing_entity == subsidiary_mapping(sid)
        refunds_df == SelectSeq(master_df, LAMBDA i : amount_negative(matches[i]))
        remaining_df == SelectSeq(master_df, LAMBDA i : amount_non_negative(matches[i]))
        poa_df == SelectSeq(remaining_df,
                            LAMBDA i : contains_poa(matches[i].cb_invoice_number))
        non_poa_df == SelectSeq(remaining_df,
                                LAMBDA i : ~contains_poa(matches[i].cb_invoice_number))
        cross_subsidiary_df == SelectSeq(non_poa_df,
            LAMBDA i : matches[i].cb_billing_entity # current_billing_entity)
        main_df == SelectSeq(non_poa_df,
            LAMBDA i : matches[i].cb_billing_entity = current_billing_entity)
    IN NonEmpty(<< Journal("refunds", FALSE, refunds_df,
                           IF refunds_df = <<>> THEN <<>>
                           ELSE generate_refunds_journal(matches, refunds_df)),
                   Journal("poa", FALSE, poa_df, <<>>),
                   Journal("cross_subsidiary", FALSE, cross_subsidiary_df, <<>>),
                   Journal("main", FALSE, main_df, <<>>) >>)

\* JournalBuilderEU.split_journals over the rows of one currency group:
\* cross-subsidiary first, then refunds, then POA, then main
split_journals_group(matches, df, aed) ==
    LET billing_entity == "Ndevor Systems Ltd : Phorest Ireland"
        cross_df == SelectSeq(df, LAMBDA i : matches[i].cb_billing_entity # billing_entity)
        non_cross_df == SelectSeq(df, LAMBDA i : matches[i].cb_billing_entity = billing_entity)
        refunds_df == SelectSeq(non_cross_df, LAMBDA i : amount_negative(matches[i]))
        positive_df == SelectSeq(non_cross_df, LAMBDA i : ~amount_negative(matches[i]))
        poa_df == SelectSeq(positive_df,
                            LAMBDA i : contains_poa(matches[i].cb_invoice_number))
        main_df == SelectSeq(positive_df,
                             LAMBDA i : ~contains_poa(matches[i].cb_invoice_number))
    IN << Journal("cross_subsidiary", aed, cross_df, <<>>),
          Journal("refunds", aed, refunds_df, generate_refunds_journal_eu(matches, refunds_df)),
          Journal("poa", aed, poa_df, <<>>),
          Journal("main", aed, main_df, <<>>) >>

\* is_aed is the boolean only when stripe_currency is a non-empty string;
\* is_aed == True and is_aed == False both fail for a row without a currency
split_journals_eu(matches) ==
    LET master_df == master_journal_eu(matches)
        aed_df == SelectSeq(master_df, LAMBDA i : /\ matches[i].stripe_currency # ""
                                                  /\ Upper(matches[i].stripe_currency) = "AED")
        eur_df == SelectSeq(master_df, LAMBDA i : /\ matches[i].stripe_currency # ""
                                                  /\ Upper(matches[i].stripe_currency) # "AED")
    IN NonEmpty(split_journals_group(matches, eur_df, FALSE)
                \o split_journals_group(matches, aed_df, TRUE))

\* the comparison of the amount column raises inside split_journals
split_raises(matches, sid) ==
    IF sid = 4
    THEN \E aed \in BOOLEAN :
            amount_raises(matches,
                SelectSeq(master_journal_eu(matches),
                    LAMBDA i : /\ matches[i].stripe_currency # ""
                               /\ (Upper(matches[i].stripe_currency) = "AED") = aed
                               /\ matches[i].cb_billing_entity
                                     = "Ndevor Systems Ltd : Phorest Ireland"))
    ELSE amount_raises(matches, master_journal(matches))

\* download_split_journal: the builder of the subsidiary
builder_journals(matches, sid) ==
    IF sid = 4 THEN split_journals_eu(matches) ELSE split_journals(matches, sid)

JournalTypes == {"cross_subsidiary", "refunds", "poa", "main"}

\* download_split_journal
DownloadSplitJournal(journal_type) ==
    /\ Ledgers_unchanged
    /\ UNCHANGED <<matched, results>>
    /\ IF matched = <<>>
       THEN resp' = Error("split_one", 404)
       ELSE IF split_raises(matched, subsidiary_id)
       THEN resp' = Error("split_one", 500)
       ELSE LET journals == builder_journals(matched, subsidiary_id)
                k == FirstIdx(journals, LAMBDA j : j.kind = journal_type)
            IN IF k = 0
               THEN resp' = [Error("split_one", 404) EXCEPT !.name = <<journal_type>>]
               ELSE resp' = [EmptyResp EXCEPT
                               !.op = "split_one", !.status = 200,
                               !.name = <<journal_type>>,
                               !.rows = journals[k].rows,
                               !.lines = journals[k].lines]

\* get_split_summary: amount = match.stripe_amount or 0; the rows of the model
\* carry no Converted Amount, so for an AED row of the EU scope
\* stripe_converted_amount or amount is amount as well
summary_amount(match) == OrZero(match.stripe_amount)

\* get_split_summary: the if/elif chain over one match
summary_category(match, current_billing_entity) ==
    IF match.cb_billing_entity # "" /\ match.cb_billing_entity # current_billing_entity
    THEN "cross_subsidiary"
    ELSE IF summary_amount(match) < 0 THEN "refunds"
    ELSE IF match.cb_invoice_number # "" /\ HasPOA(match.cb_invoice_number) THEN "poa"
    ELSE "regular"

summary_rows(matches, cat, current_billing_entity) ==
    SelectSeq([i \in 1..Len(matches) |-> i],
              LAMBDA i : summary_category(matches[i], current_billing_entity) = cat)

\* get_split_summary
GetSplitSummary ==
    /\ Ledgers_unchanged
    /\ UNCHANGED <<matched, results>>
    /\ IF matched = <<>>
       THEN resp' = Error("split_summary", 404)
       ELSE LET e == subsidiary_mapping(subsidiary_id)
                of(cat) == [ count |-> Len(summary_rows(matched, cat, e)),
                             total |-> SumAmounts(matched, summary_rows(matched, cat, e)) ]
                master_total == SumAmounts(matched, [i \in 1..Len(matched) |-> i])
                splits_total == of("refunds").total + of("poa").total
                                + of("regular").total + of("cross_subsidiary").total
            IN resp' = [EmptyResp EXCEPT
                          !.op = "split_summary", !.status = 200,
                          !.split_summary =
                              << [ refunds |-> of("refunds"), poa |-> of("poa"),
                                   regular |-> of("regular"),
                                   cross_subsidiary |-> of("cross_subsidiary"),
                                   master_total |-> master_total,
                                   splits_total |-> splits_total,
                                   match |-> Abs(master_total - splits_total) < 10 ] >>]

\* rows of the two ledgers of a scope whose matched rows differ in owning
\* entity, sign of the amount, POA marker and presence of an amount
StripeUniverseJournals ==
    { StripeRow("123", <<>>, "Charge", <<"dmy", 10>>, <<50000>>, "usd"),
      StripeRow("123", <<>>, "Refund", <<"dmy", 10>>, <<-20000>>, "usd"),
      StripeRow("123", <<>>, "Charge", <<"dmy", 10>>, <<>>, "usd") }

CashbookUniverseJournals ==
    { CashbookRow(<<123>>, <<"dmy", 10>>, <<50000>>, "USD", subsidiary_mapping(US), "INV-1"),
      CashbookRow(<<123>>, <<"dmy", 10>>, <<-20000>>, "USD", subsidiary_mapping(US), "INV-1"),
      CashbookRow(<<123>>, <<"dmy", 10>>, <<-20000>>, "USD", subsidiary_mapping(EU), "INV-1"),
      CashbookRow(<<123>>, <<"dmy", 10>>, <<50000>>, "USD", subsidiary_mapping(EU), "POA-1"),
      CashbookRow(<<123>>, <<"dmy", 10>>, <<0>>, "USD", subsidiary_mapping(US), "INV-1") }

InitJournals ==
    /\ subsidiary_id \in {US, EU}
    /\ stripe_transactions \in Ledgers(StripeUniverseJournals)
    /\ cashbook_transactions \in Ledgers(CashbookUniverseJournals)
    /\ matched = <<>>
    /\ results = <<>>
    /\ resp = EmptyResp
    /\ fp = FPDataset(<<>>, <<>>)
    /\ journal_transactions = <<>>
    /\ inflight = <<>>
    /\ last_id = [stripe |-> Len(stripe_transactions), cashbook |-> Len(cashbook_transactions)]

NextJournals ==
    \/ Process1Match(FALSE)
    \/ DeleteAllMatches
    \/ \E journal_type \in JournalTypes : DownloadSplitJournal(journal_type)
    \/ GetSplitSummary
    \/ DownloadSplitJournals

SpecJournals == InitJournals /\ [][NextJournals]_vars

\* the journal the order cross-entity, refund, POA marker, main gives a row
FirstRule(match) ==
    IF match.cb_billing_entity # subsidiary_mapping(subsidiary_id) THEN "cross_subsidiary"
    ELSE IF OrZero(match.stripe_amount) < 0 THEN "refunds"
    ELSE IF HasPOA(match.cb_invoice_number) THEN "poa"
    ELSE "main"

\* the matched rows that carry an amount and that the order gives to a journal
RowsByFirstRule(kind) ==
    {i \in 1..Len(matched) : matched[i].stripe_amount # <<>> /\ FirstRule(matched[i]) = kind}

RowsWithAmount(idx) == {i \in Range(idx) : matched[i].stripe_amount # <<>>}

\* the builder has split the matched table for the last response
SplitDone == resp.op = "split_one" /\ resp.name # <<>>

\* the key of a journal in the split summary
SummaryKey(kind) == IF kind = "main" THEN "regular" ELSE kind

\* C28: every matched record goes to the journal of the first rule that
\* applies in the order cross-entity, refund (amount < 0), POA marker, main: a
\* downloaded journal holds exactly the records the order gives it, a journal
\* reported missing has none, and the split summary counts each record under
\* that journal; so a record of another owning entity is in the cross-entity
\* journal even when its amount is negative or its invoice has the marker
C28_FirstRuleOrder ==
    /\ (SplitDone /\ resp.status = 200)
          => RowsWithAmount(resp.rows) = RowsByFirstRule(resp.name[1])
    /\ (SplitDone /\ resp.status = 404) => RowsByFirstRule(resp.name[1]) = {}
    /\ (resp.op = "split_summary" /\ resp.status = 200)
          => \A kind \in JournalTypes :
                resp.split_summary[1][SummaryKey(kind)].count
                   = Cardinality({i \in 1..Len(matched) : FirstRule(matched[i]) = kind})

\* the journals of the split that hold a matched row
JournalsOf(i) ==
    LET journals == builder_journals(matched, subsidiary_id)
    IN {k \in 1..Len(journals) : i \in Range(journals[k].rows)}

\* C29: after a split every matched record is in exactly one of the
\* cross-entity, refunds, POA and main journals: none is dropped from all of
\* them and none is in two
C29_ExactlyOneJournal ==
    SplitDone => \A i \in 1..Len(matched) : Cardinality(JournalsOf(i)) = 1

DebitLines(lines_) == SelectSeq(lines_, LAMBDA l : l.Dr # <<>>)

CreditLines(lines_) == SelectSeq(lines_, LAMBDA l : l.Cr # <<>>)

RECURSIVE SumDr(_)
SumDr(lines_) == IF lines_ = <<>> THEN 0 ELSE OrZero(Head(lines_).Dr) + SumDr(Tail(lines_))

\* the date is the last day of a month
IsMonthEnd(date) ==
    \/ date = FallbackEom
    \/ ParseDMY(date) # <<>> /\ ParseDMY(date)[1] = end_of_month(ParseDMY(date)[1])

\* a refunds journal has been downloaded
RefundsDownloaded == SplitDone /\ resp.status = 200 /\ resp.name = <<"refunds">>

\* C30: a downloaded refunds journal has one debit line per refund record and
\* exactly one credit line; the credit line is dated at a month end and its
\* amount is the sum of the debit lines
C30_RefundsJournal ==
    RefundsDownloaded
    => /\ Len(DebitLines(resp.lines)) = Len(resp.rows)
       /\ \A i \in Range(resp.rows) :
             Cardinality({k \in 1..Len(resp.lines) :
                             resp.lines[k].Dr # <<>> /\ resp.lines[k].row = i}) = 1
       /\ Len(CreditLines(resp.lines)) = 1
       /\ IsMonthEnd(CreditLines(resp.lines)[1].Date)
       /\ CreditLines(resp.lines)[1].Cr[1] = SumDr(DebitLines(resp.lines))

----------------------------------------------------------------------------
(* Two invocations of a matching stage on one scope *)

\* the invocations of a scope that can be in flight at once
MaxRequests == 2

\* an invocation between its query for the existing matches and its commit
Request(stage, existing) == [ stage |-> stage, existing |-> existing ]

\* a commit that queries the table again under a scope-level lock
existing_at_commit_locked(request, current) == current

\* perform_matching, perform_process2_matching: the existing matches the rows
\* of an invocation are computed from are those its query returned
existing_at_commit(request, current) == request.existing

\* the rows, lists and summary an invocation commits
stage_result(request, current) ==
    LET existing == existing_at_commit(request, current) IN
    IF request.stage = 1
    THEN IF subsidiary_id = 4
         THEN perform_matching_eu(stripe_transactions, cashbook_transactions,
                                  cutoff_of(stripe_transactions), existing)
         ELSE perform_matching(stripe_transactions, cashbook_transactions,
                               cutoff_of(stripe_transactions), existing)
    ELSE IF subsidiary_id = 4
         THEN perform_process2_matching_eu(stripe_transactions, cashbook_transactions,
                                           existing)
         ELSE perform_process2_matching(stripe_transactions, cashbook_transactions,
                                        existing, subsidiary_id)

\* process1_match, process2_match up to the query for the existing matches
BeginStage(stage) ==
    /\ UNCHANGED <<subsidiary_id, stripe_transactions, cashbook_transactions, fp,
                   journal_transactions, last_id, matched, results>>
    /\ IF \/ stripe_transactions = <<>> \/ cashbook_transactions = <<>>
          \/ (stage = 1 /\ (\/ actual_transactions(stripe_transactions) = <<>>
                            \/ parsed_dates(stripe_transactions) = {}))
       THEN /\ resp' = Error(IF stage = 1 THEN "process1" ELSE "process2", 400)
            /\ UNCHANGED inflight
       ELSE /\ Len(inflight) < MaxRequests
            /\ inflight' = Append(inflight, Request(stage, matched))
            /\ resp' = resp

\* process1_match, process2_match from the matching loop to the commits
CommitStage(k) ==
    /\ k \in 1..Len(inflight)
    /\ UNCHANGED <<subsidiary_id, stripe_transactions, cashbook_transactions, fp,
                   journal_transactions, last_id>>
    /\ LET r == stage_result(inflight[k], matched) IN
       /\ Len(matched) + Len(r.rows) <= MaxMatched
       /\ Len(results) + Len(r.summary) <= MaxResults
       /\ matched' = matched \o r.rows
       /\ results' = results \o r.summary
       /\ inflight' = RemoveAt(inflight, k)
       /\ resp' = IF inflight[k].stage = 1
                  THEN [EmptyResp EXCEPT
                          !.op = "process1", !.status = 200, !.cached = r.cached,
                          !.cutoff_date = cutoff_of(stripe_transactions),
                          !.perfect_matches = r.perfect_matches,
                          !.unmatched_stripe = r.unmatched_stripe,
                          !.unmatched_cashbook = r.unmatched_cashbook,
                          !.out_of_cutoff_cashbook = r.out_of_cutoff_cashbook]
                  ELSE [EmptyResp EXCEPT
                          !.op = "process2", !.status = 200,
                          !.perfect_matches = SeqMap(matched', PairOf),
                          !.new_matches = r.new_matches,
                          !.unmatched_stripe = r.unmatched_stripe,
                          !.unmatched_cashbook = r.unmatched_cashbook]

NextConcurrent ==
    \/ \E stage \in {1, 2} : BeginStage(stage)
    \/ \E k \in 1..MaxRequests : CommitStage(k)

SpecConcurrent == InitOps /\ [][NextConcurrent]_vars

\* the rows an invocation computes from what its query returned
RowsOfRequest(request) ==
    IF request.stage = 1
    THEN IF subsidiary_id = 4
         THEN perform_matching_eu(stripe_transactions, cashbook_transactions,
                                  cutoff_of(stripe_transactions), request.existing).rows
         ELSE perform_matching(stripe_transactions, cashbook_transactions,
                               cutoff_of(stripe_transactions), request.existing).rows
    ELSE IF subsidiary_id = 4
         THEN perform_process2_matching_eu(stripe_transactions, cashbook_transactions,
                                           request.existing).rows
         ELSE perform_process2_matching(stripe_transactions, cashbook_transactions,
                                        request.existing, subsidiary_id).rows

\* another invocation of the same stage, which read the same existing pairs,
\* has committed its pairs since this invocation's query
Overtaken(request) ==
    /\ RowsOfRequest(request) # <<>>
    /\ matched = request.existing \o RowsOfRequest(request)

\* the step commits the k-th invocation in flight
Commits(k) == k \in 1..Len(inflight) /\ inflight' = RemoveAt(inflight, k)

\* the entries that more than one pair consumes
DoubleConsumed(matches) ==
    {i \in 1..Len(matches) : \E j \in 1..Len(matches) :
        j # i /\ matches[j].stripe_id = matches[i].stripe_id
              /\ matches[j].cashbook_id = matches[i].cashbook_id
              /\ matches[j].process_number = matches[i].process_number}

\* the summary rows of a stage
SummaryRows(rows_, stage) == SelectSeq(rows_, LAMBDA r : r.process_number = stage)

\* C31: the stages take no scope-level lock: when two invocations of a stage
\* both read the existing pairs before either commits, the second commit adds
\* the pairs of the first again, so that every ledger entry the stage pairs is
\* consumed by two MatchedPairs, and the stage's summary is stored twice
C31_NoScopeLock ==
    [][ \A k \in 1..MaxRequests :
           (Commits(k) /\ Overtaken(inflight[k]))
           => /\ matched' = matched \o RowsOfRequest(inflight[k])
              /\ \A i \in (Len(inflight[k].existing) + 1)..Len(matched') :
                    i \in DoubleConsumed(matched')
              /\ Len(SummaryRows(results', inflight[k].stage))
                    > Len(SummaryRows(results, inflight[k].stage)) ]_vars

\* two invocations of a stage have committed the same pair
C31_Witness ==
    /\ inflight = <<>>
    /\ resp.op \in {"process1", "process2"} /\ resp.status = 200
    /\ DoubleConsumed(matched) # {}



----------------------------------------------------------------------------
(* Entries without a usable date or amount *)

\* a ledger entry's date parses and its amount is present
usable(created, amount) == ParseDMYHM(created) # <<>> /\ amount # <<>>

\* the pairs of matches that hold an entry without a usable date or amount
UnusablePairs(matches) ==
    {i \in 1..Len(matches) :
        \/ ~usable(matches[i].stripe_created, matches[i].stripe_amount)
        \/ ~usable(matches[i].cb_payment_date, matches[i].cb_amount)}

\* C32: an entry whose date cannot be parsed or whose amount is missing is
\* never part of a pair created by a Stage 1 pass
C32_UnusableExcluded ==
    (resp.op = "process1" /\ resp.status = 200 /\ ~resp.cached)
        => UnusablePairs(matched) = {}

\* the same statement on the EU path only, where the rows are filtered
\* before the lookup
C32_UnusableExcludedEU ==
    (subsidiary_id = EU /\ resp.op = "process1" /\ resp.status = 200 /\ ~resp.cached)
        => UnusablePairs(matched) = {}

C32_WitnessEU ==
    /\ subsidiary_id = EU /\ resp.op = "process1" /\ resp.status = 200 /\ ~resp.cached
    /\ \E t \in Range(stripe_transactions) : t.amount = <<>>
    /\ Len(matched) > 0


----------------------------------------------------------------------------
(* Journal synchronisation: JournalSync *)

\* JournalSync._determine_journal_type
_determine_journal_type(match) ==
    IF Truthy(match.stripe_amount) /\ match.stripe_amount[1] < 0 THEN "Refunds"
    ELSE IF match.cb_invoice_number # "" /\ HasPOA(match.cb_invoice_number) THEN "POA"
    ELSE IF match.match_type = "Salon Summit Installment" THEN "Salon Summit Installments"
    ELSE "Main"

\* JournalSync._create_journal_transaction: the row added for the match with id i
_create_journal_transaction(match, i, memo) ==
    [ matched_transaction_id |-> i,
      journal_type           |-> _determine_journal_type(match),
      journal_memo           |-> memo,
      cb_invoice_number      |-> match.cb_invoice_number,
      cb_billing_entity      |-> match.cb_billing_entity,
      cb_amount              |-> match.cb_amount,
      stripe_amount          |-> match.stripe_amount ]

\* JournalSync._update_journal_transaction: the copied columns are refreshed,
\* the memo only when one is given, journal_type is left as it is
_update_journal_transaction(journal_tx, match, memo) ==
    [ journal_tx EXCEPT
        !.journal_memo      = IF memo # "" THEN memo ELSE @,
        !.cb_invoice_number = match.cb_invoice_number,
        !.cb_billing_entity = match.cb_billing_entity,
        !.cb_amount         = match.cb_amount,
        !.stripe_amount     = match.stripe_amount ]

\* ids of the matches sync_journal_data looks at
synced_matches(matches) ==
    SelectSeq([i \in 1..Len(matches) |-> i],
              LAMBDA i : matches[i].match_type # "Salon Summit Installment")

\* existing_jt: the first JournalTransaction of the match with id i, 0 when none
existing_jt(journal, i) ==
    FirstIdx(journal, LAMBDA jt : jt.matched_transaction_id = i)

\* the loop of sync_journal_data over the matches
sync_journal_rows(journal, matches, memo) ==
    LET ids == synced_matches(matches)
        updated == [k \in 1..Len(journal) |->
                       LET i == journal[k].matched_transaction_id IN
                       IF i \in Range(ids) /\ existing_jt(journal, i) = k
                       THEN _update_journal_transaction(journal[k], matches[i], memo)
                       ELSE journal[k]]
        created == SelectSeq(ids, LAMBDA i : existing_jt(journal, i) = 0)
    IN updated \o [k \in 1..Len(created) |->
                      _create_journal_transaction(matches[created[k]], created[k], memo)]

Memos == {"", "Sept"}

\* rows of journal_transactions explored
MaxJournal == 3

\* a synchronisation that also marks the matches it has copied
SyncJournalData_marks(memo) ==
    /\ Scope_unchanged
    /\ UNCHANGED results
    /\ Len(sync_journal_rows(journal_transactions, matched, memo)) <= MaxJournal
    /\ matched' = [i \in 1..Len(matched) |-> [matched[i] EXCEPT !.match_type = "synced"]]
    /\ journal_transactions' = sync_journal_rows(journal_transactions, matched, memo)
    /\ resp' = [EmptyResp EXCEPT !.op = "journal_sync", !.status = 200]

\* POST /api/journals/sync/<job_id>/<subsidiary_id>
SyncJournalData(memo) ==
    /\ Scope_unchanged
    /\ UNCHANGED <<matched, results>>
    /\ Len(sync_journal_rows(journal_transactions, matched, memo)) <= MaxJournal
    /\ journal_transactions' = sync_journal_rows(journal_transactions, matched, memo)
    /\ LET ids == synced_matches(matched)
           created == SelectSeq(ids, LAMBDA i : existing_jt(journal_transactions, i) = 0)
       IN resp' = [EmptyResp EXCEPT !.op = "journal_sync", !.status = 200,
                                    !.created_count = Len(created),
                                    !.updated_count = Len(ids) - Len(created)]

\* DELETE /api/journals/clear/<job_id>/<subsidiary_id>
ClearJournalData ==
    /\ Scope_unchanged
    /\ UNCHANGED <<matched, results>>
    /\ journal_transactions' = <<>>
    /\ resp' = [EmptyResp EXCEPT !.op = "journal_clear", !.status = 200]

\* ledgers whose matched rows differ in sign, POA marker and owning entity
StripeUniverseSync ==
    { StripeRow("123", <<>>, "Charge", <<"dmy", 10>>, <<50000>>, "usd"),
      StripeRow("123", <<>>, "Refund", <<"dmy", 10>>, <<-20000>>, "usd") }

CashbookUniverseSync ==
    { CashbookRow(<<123>>, <<"dmy", 10>>, <<50000>>, "USD", subsidiary_mapping(US), "INV-1"),
      CashbookRow(<<123>>, <<"dmy", 10>>, <<-20000>>, "USD", subsidiary_mapping(US), "INV-1"),
      CashbookRow(<<123>>, <<"dmy", 10>>, <<50000>>, "USD", subsidiary_mapping(EU), "POA-1") }

InitSync ==
    /\ subsidiary_id \in {US, EU}
    /\ stripe_transactions \in Ledgers(StripeUniverseSync)
    /\ cashbook_transactions \in Ledgers(CashbookUniverseSync)
    /\ matched = <<>>
    /\ results = <<>>
    /\ resp = EmptyResp
    /\ fp = FPDataset(<<>>, <<>>)
    /\ journal_transactions = <<>>
    /\ inflight = <<>>
    /\ last_id = [stripe |-> Len(stripe_transactions), cashbook |-> Len(cashbook_transactions)]

NextSync ==
    \/ Process1Match(FALSE)
    \/ DeleteAllMatches
    \/ \E memo \in Memos : SyncJournalData(memo)
    \/ ClearJournalData

SpecSync == InitSync /\ [][NextSync]_vars

\* C33: sync_journal_data and clear_journal_data change JournalTransaction
\* rows only: the MatchedTransaction, StripeTransaction and
\* CashbookTransaction tables are the same before and after
C33_OneWaySync ==
    [][ ((\E memo \in Memos : SyncJournalData(memo)) \/ ClearJournalData)
            => UNCHANGED <<matched, stripe_transactions, cashbook_transactions>> ]_vars

C33_Witness ==
    /\ resp.op = "journal_sync" /\ resp.status = 200
    /\ resp.created_count > 0 /\ matched # <<>>
    /\ \E k \in 1..Len(journal_transactions) :
          journal_transactions[k].matched_transaction_id = 0


\* the JournalTransaction rows of the match with id i
JournalRowsOf(i) ==
    {k \in 1..Len(journal_transactions) : journal_transactions[k].matched_transaction_id = i}

\* the JournalTransaction rows whose MatchedTransaction is no longer stored
StaleJournalRows == JournalRowsOf(0)

SyncDone == resp.op = "journal_sync" /\ resp.status = 200

\* C36: after sync_journal_data the JournalTransaction rows correspond one
\* to one to the MatchedTransactions that are not installments: each such
\* match has exactly one row, and every row belongs to a stored match
C36_SyncOneToOne ==
    SyncDone =>
        /\ \A i \in Range(synced_matches(matched)) : Cardinality(JournalRowsOf(i)) = 1
        /\ StaleJournalRows = {}

\* the part of the statement about repeated syncs: a match never has two rows
C36_NoDuplicate ==
    \A i \in 1..Len(matched) : Cardinality(JournalRowsOf(i)) <= 1

C36_RepeatedSync ==
    /\ SyncDone /\ resp.created_count = 0 /\ resp.updated_count > 0


----------------------------------------------------------------------------
(* JournalBuilder: the methods that build a JournalTransaction *)

\* memo or 'Salon Summit Installment'
installment_memo(memo) == IF memo # "" THEN memo ELSE "Salon Summit Installment"

\* f"Remaining after Salon Summit split: {remaining_amount}"
remaining_memo(remaining_amount) ==
    IF remaining_amount = 40000 THEN "Remaining after Salon Summit split: 40.0"
    ELSE "Remaining after Salon Summit split: 0.0"

\* JournalBuilder._create_installment_journal: the row handed to db.session.add
_create_installment_journal(original_journal, installment_amount, memo) ==
    [ original_journal EXCEPT
        !.journal_type  = "Salon Summit Installments",
        !.journal_memo  = installment_memo(memo),
        !.cb_amount     = <<installment_amount>>,
        !.stripe_amount = <<installment_amount>> ]

\* a split that leaves the original journal row as it was
_update_main_journal_for_split_copy(original_journal, remaining_amount) ==
    original_journal

\* JournalBuilder._update_main_journal_for_split
_update_main_journal_for_split(original_journal, remaining_amount) ==
    IF Truthy(original_journal.cb_amount) /\ original_journal.cb_amount[1] > 0
    THEN [ original_journal EXCEPT
             !.cb_amount     = <<remaining_amount>>,
             !.stripe_amount = <<remaining_amount>>,
             !.journal_memo  = remaining_memo(remaining_amount) ]
    ELSE original_journal

InstallmentAmounts == {10000}

RemainingAmounts == {40000}

\* JournalBuilder._create_installment_journal on the k-th JournalTransaction of
\* the session
CreateInstallmentJournal(k, installment_amount, memo) ==
    /\ k \in 1..Len(journal_transactions)
    /\ Len(journal_transactions) < MaxJournal
    /\ Scope_unchanged
    /\ UNCHANGED <<matched, results, resp>>
    /\ journal_transactions' =
          Append(journal_transactions,
                 _create_installment_journal(journal_transactions[k], installment_amount, memo))

\* JournalBuilder._update_main_journal_for_split on the k-th JournalTransaction
\* of the session
UpdateMainJournalForSplit(k, remaining_amount) ==
    /\ k \in 1..Len(journal_transactions)
    /\ Scope_unchanged
    /\ UNCHANGED <<matched, results, resp>>
    /\ journal_transactions' =
          [journal_transactions EXCEPT
              ![k] = _update_main_journal_for_split(@, remaining_amount)]

\* the JournalBuilder methods the endpoints call
BuilderEndpoints ==
    \/ \E journal_type \in JournalTypes : DownloadSplitJournal(journal_type)

\* every JournalBuilder method of the model
BuilderOperation ==
    \/ BuilderEndpoints
    \/ \E k \in 1..MaxJournal, a \in InstallmentAmounts :
          CreateInstallmentJournal(k, a, "")
    \/ \E k \in 1..MaxJournal, r \in RemainingAmounts : UpdateMainJournalForSplit(k, r)

NextBuilder ==
    \/ Process1Match(FALSE)
    \/ SyncJournalData("")
    \/ \E journal_type \in JournalTypes : DownloadSplitJournal(journal_type)
    \/ \E k \in 1..MaxJournal, a \in InstallmentAmounts :
          CreateInstallmentJournal(k, a, "")
    \/ \E k \in 1..MaxJournal, r \in RemainingAmounts : UpdateMainJournalForSplit(k, r)

SpecBuilder == InitSync /\ [][NextBuilder]_vars

Tables_unchanged ==
    UNCHANGED <<stripe_transactions, cashbook_transactions, matched, results,
                journal_transactions, fp>>

\* C34: no JournalBuilder operation changes a row of any table: it neither
\* adds a row nor alters an existing one
C34_BuilderReadOnly ==
    [][ BuilderOperation => Tables_unchanged ]_vars

\* the same statement for the methods the endpoints call
C34_EndpointsReadOnly ==
    [][ BuilderEndpoints => Tables_unchanged ]_vars


----------------------------------------------------------------------------
(* Uploading and deleting the ledgers of a scope *)

\* highest row id a ledger table hands out
MaxId == 3

\* the rows of a file get the ids that follow the last id of the table
WithIdsFrom(rows, last) == [i \in 1..Len(rows) |-> [id |-> last + i] @@ rows[i]]

Files(U) == UNION {[1..n -> U] : n \in 1..MaxLedger}

\* upload_stripe_csv: the rows of the scope are deleted and the rows of the
\* file inserted
UploadStripeCsv(file) ==
    /\ last_id.stripe + Len(file) <= MaxId
    /\ UNCHANGED <<subsidiary_id, cashbook_transactions, fp, inflight,
                   journal_transactions, results, matched>>
    /\ stripe_transactions' = WithIdsFrom(file, last_id.stripe)
    /\ last_id' = [last_id EXCEPT !.stripe = @ + Len(file)]
    /\ resp' = [EmptyResp EXCEPT !.op = "stripe_upload", !.status = 200, !.arg = Len(file)]

\* upload_cashbook_excel
UploadCashbookExcel(file) ==
    /\ last_id.cashbook + Len(file) <= MaxId
    /\ UNCHANGED <<subsidiary_id, stripe_transactions, fp, inflight,
                   journal_transactions, results, matched>>
    /\ cashbook_transactions' = WithIdsFrom(file, last_id.cashbook)
    /\ last_id' = [last_id EXCEPT !.cashbook = @ + Len(file)]
    /\ resp' = [EmptyResp EXCEPT !.op = "cashbook_upload", !.status = 200, !.arg = Len(file)]

\* delete_cashbook_transactions
DeleteCashbookTransactions ==
    /\ UNCHANGED <<subsidiary_id, stripe_transactions, fp, inflight, last_id,
                   journal_transactions, results, matched>>
    /\ cashbook_transactions' = <<>>
    /\ resp' = [EmptyResp EXCEPT !.op = "cashbook_delete", !.status = 200,
                                 !.arg = Len(cashbook_transactions)]

\* delete_stripe_transactions
DeleteStripeTransactions ==
    /\ UNCHANGED <<subsidiary_id, cashbook_transactions, fp, inflight, last_id,
                   journal_transactions, results, matched>>
    /\ stripe_transactions' = <<>>
    /\ resp' = [EmptyResp EXCEPT !.op = "stripe_delete", !.status = 200,
                                 !.arg = Len(stripe_transactions)]

NextLedgers ==
    \/ Process1Match(FALSE)
    \/ DeleteAllMatches
    \/ \E file \in Files(StripeUniverse) : UploadStripeCsv(file)
    \/ \E file \in Files(CashbookUniverse) : UploadCashbookExcel(file)
    \/ DeleteCashbookTransactions
    \/ DeleteStripeTransactions

SpecLedgers == InitOps /\ [][NextLedgers]_vars

StripeIds == {stripe_transactions[i].id : i \in 1..Len(stripe_transactions)}

CashbookIds == {cashbook_transactions[i].id : i \in 1..Len(cashbook_transactions)}

\* the pairs a Stage 1 run returns are made of stored ledger entries
C35_Stage1PairsExist ==
    (resp.op = "process1" /\ resp.status = 200)
        => \A k \in 1..Len(resp.perfect_matches) :
              /\ resp.perfect_matches[k][1] \in StripeIds
              /\ resp.perfect_matches[k][2] \in CashbookIds

\* C35: every MatchedTransaction names a StripeTransaction and a
\* CashbookTransaction that are stored in the scope, and the pairs a Stage 1
\* run returns are made of stored ledger entries
C35_ReferencesExist ==
    /\ \A i \in 1..Len(matched) :
          matched[i].stripe_id \in StripeIds /\ matched[i].cashbook_id \in CashbookIds
    /\ C35_Stage1PairsExist


----------------------------------------------------------------------------
(* Allocation after the commitments were cleared and uploaded again *)

NextSummit ==
    \/ \E summit_data \in FPSummitFiles : UploadSummit(summit_data)
    \/ MatchSummit
    \/ ProcessSummit
    \/ ClearProcessing

SpecSummit == InitAlloc /\ [][NextSummit]_vars

\* the stored match results are those match_summit computes from the
\* commitments that are uploaded now
MatchResultsCurrent ==
    fp.match_results = match_results_of(fp.journal_rows, fp.summit_installments)

\* C37: process_summit applies an allocation only when the stored match
\* results were computed from the commitments that are uploaded now
C37_ProcessNeedsCurrentMatch ==
    (resp.op = "process_summit" /\ resp.status = 200) => MatchResultsCurrent

\* process_summit is rejected while no match results are stored at all
C37_ProcessNeedsSomeMatch ==
    (resp.op = "process_summit" /\ resp.status = 200) => fp.match_results # <<>>


----------------------------------------------------------------------------
(* The verification flag of an allocation run *)

\* an allocation run has answered with its flag
FlagReturned == resp.op \in ApplyOps /\ resp.status = 200 /\ resp.balanced # <<>>

\* C38: the flag an allocation run returns is true exactly when the total of
\* all rows after the allocation, installment rows included, differs from the
\* total of all rows before it by less than 0.01
C38_VerificationFlag ==
    FlagReturned =>
        (resp.balanced[1]
            <=> Abs(TotalAmount(fp.processed_journals) - TotalAmount(fp.journal_rows)) < Epsilon)

\* a run whose totals differ and whose flag says so
C38_Witness ==
    /\ FlagReturned
    /\ ~resp.balanced[1]
    /\ Abs(TotalAmount(fp.processed_journals) - TotalAmount(fp.journal_rows)) >= Epsilon

\* a process_summit run that applied a commitment and returned a true flag
C38_WitnessSummit ==
    /\ resp.op = "process_summit" /\ resp.status = 200
    /\ resp.balanced = <<TRUE>>
    /\ AppliedClients(fp) # {}


----------------------------------------------------------------------------
(* Stage 2 on the standard path: which strategy produces a pair *)

\* Stripe rows that differ in client and date
StripeUniverseStage2 ==
    { StripeRow("123", <<>>, "Charge", <<"dmy", 10>>, <<50000>>, "usd"),
      StripeRow("456", <<>>, "Charge", <<"dmy", 10>>, <<50000>>, "usd"),
      StripeRow("123", <<>>, "Charge", <<"dmy", 20>>, <<50000>>, "usd") }

\* Cashbook rows of the scope's own books and of another entity's books, in
\* and out of the date window
CashbookUniverseStage2 ==
    { CashbookRow(<<123>>, <<"dmy", 10>>, <<50000>>, "USD", subsidiary_mapping(US), "INV-1"),
      CashbookRow(<<789>>, <<"dmy", 11>>, <<50000>>, "USD", subsidiary_mapping(EU), "INV-1"),
      CashbookRow(<<123>>, <<"dmy", 15>>, <<50000>>, "USD", subsidiary_mapping(EU), "INV-1"),
      CashbookRow(<<789>>, <<"dmy", 15>>, <<50000>>, "USD", subsidiary_mapping(EU), "INV-1") }

InitStage2 ==
    /\ subsidiary_id = US
    /\ stripe_transactions \in Ledgers(StripeUniverseStage2)
    /\ cashbook_transactions \in Ledgers(CashbookUniverseStage2)
    /\ matched = <<>>
    /\ results = <<>>
    /\ resp = EmptyResp
    /\ fp = FPDataset(<<>>, <<>>)
    /\ journal_transactions = <<>>
    /\ inflight = <<>>
    /\ last_id = [stripe |-> Len(stripe_transactions), cashbook |-> Len(cashbook_transactions)]

NextStage2 ==
    \/ Process2Match(FALSE)
    \/ DeleteAllMatches

SpecStage2 == InitStage2 /\ [][NextStage2]_vars

\* the strategies that produce a pair for some ledgers of the scope
ProducingStrategies ==
    { row.match_type :
        row \in UNION { Range(perform_process2_matching(st, cb, <<>>, subsidiary_id).rows) :
                           st \in Ledgers(StripeUniverseStage2),
                           cb \in Ledgers(CashbookUniverseStage2) } }

\* C39: each of the three strategies of the standard Stage 2 can be the one
\* that produces a pair; there are ledgers for which a pair is produced by
\* the cross-entity strategy
C39_EveryStrategyProduces ==
    {"date_amount", "client_amount", "cross_subsidiary"} \subseteq ProducingStrategies

\* the first two strategies do produce pairs
C39_TwoStrategiesProduce ==
    {"date_amount", "client_amount"} \subseteq ProducingStrategies

\* no run of the standard Stage 2 stores a pair of the cross-entity strategy
C39_CrossNeverProduces ==
    \A i \in 1..Len(matched) : matched[i].match_type # "cross_subsidiary"

\* a pair with a row of another entity's books, produced by the first strategy
C39_CrossRowPaired ==
    \E i \in 1..Len(matched) :
        /\ matched[i].process_number = 2
        /\ matched[i].cb_billing_entity # subsidiary_mapping(subsidiary_id)
        /\ matched[i].match_type = "date_amount"


----------------------------------------------------------------------------
(* The journal category of a matched record, as each component assigns it *)

\* one name per category across the components
CategoryName(kind) ==
    CASE kind \in {"regular", "main", "Main"} -> "main"
      [] kind \in {"refunds", "Refunds"} -> "refunds"
      [] kind \in {"poa", "POA"} -> "poa"
      [] OTHER -> kind

\* get_split_summary
SummaryCategory(i) ==
    CategoryName(summary_category(matched[i], subsidiary_mapping(subsidiary_id)))

\* download_split_journals
DownloadCategory(i) ==
    CategoryName(split_category(matched[i], subsidiary_mapping(subsidiary_id)))

\* JournalBuilder.split_journals: the journals that hold the record
BuilderCategories(i) ==
    LET journals == builder_journals(matched, subsidiary_id)
    IN  {CategoryName(journals[k].kind) : k \in JournalsOf(i)}

\* JournalSync: the journal_type of the record's JournalTransaction rows
SyncCategories(i) ==
    {CategoryName(journal_transactions[k].journal_type) : k \in JournalRowsOf(i)}

\* C40: for the same matched records, get_split_summary and
\* download_split_journals, JournalBuilder.split_journals and the journal_type
\* written by JournalSync put every record in the same category
C40_SameCategory ==
    SyncDone =>
        \A i \in 1..Len(matched) :
            /\ DownloadCategory(i) = SummaryCategory(i)
            /\ BuilderCategories(i) = {SummaryCategory(i)}
            /\ SyncCategories(i) = {SummaryCategory(i)}

\* the two endpoints of app.py agree with each other
C40_EndpointsAgree ==
    \A i \in 1..Len(matched) : DownloadCategory(i) = SummaryCategory(i)

\* the components agree on the records of the scope's own billing entity
C40_OwnEntityAgree ==
    SyncDone =>
        \A i \in 1..Len(matched) :
            matched[i].cb_billing_entity = subsidiary_mapping(subsidiary_id)
            => /\ BuilderCategories(i) = {SummaryCategory(i)}
               /\ SyncCategories(i) = {SummaryCategory(i)}

====
